---- MODULE Spec2Model ----
(***************************************************************************)
(* A model of the Lean 4 environment core (library/init/lean/              *)
(* environment.lean and its generated C code in src/util/object_ref.h):    *)
(* the staged declaration map, the extension registries, persistent        *)
(* extensions and the module importer.                                     *)
(*                                                                         *)
(* Conventions.  Option values are sequences of length at most one         *)
(* (<<>> is none, <<v>> is some v).  Lean lists and arrays are sequences;  *)
(* a list's head is its first element.  The red-black tree behind RBMap is *)
(* represented by its in-order traversal, a sequence of <<key, value>>     *)
(* sorted by Name.quickLt: ins/find/fold are stated on that traversal and  *)
(* the colouring is not represented.  Environment objects live in           *)
(* reference-counted cells (heap), held by holders (refs); an operation    *)
(* consumes its holder's reference and reuses the cell exactly when the    *)
(* reference is exclusive, as the generated code does.                     *)
(***************************************************************************)
EXTENDS Integers, Sequences, FiniteSets, TLC

\* ---------------------------------------------------------------- bounds
MaxExts == 3
MaxEntries == 2
MaxMods == 1

\* ------------------------------------------------------------ value sets
ConstNames == {"a", "b"}
ConstVals == {1, 2}
ModNames == {"A", "B", "C"}
Entries == {0, 1}
Holders == {"h1", "h2"}
H1 == "h1"
Cells == 1..Cardinality(Holders)

Decls == [name : ConstNames, val : ConstVals]

\* more names than the hash table has buckets at first, in the order in
\* which they are first inserted
HashNames == <<"k0", "k1", "k2", "k3", "k4", "k5", "k6", "k7", "k8", "k9">>
AllNames == ConstNames \cup {HashNames[i] : i \in 1..Len(HashNames)}

None == <<>>
Some(v) == <<v>>
IsSome(o) == Len(o) > 0

\* ------------------------------------------------------------- utilities
RECURSIVE Reverse(_)
Reverse(s) == IF s = <<>> THEN <<>> ELSE Append(Reverse(Tail(s)), Head(s))

\* lean::array_get(default, a, i) with a 0-based index
ArrayGet(default, a, i) == IF i < Len(a) THEN a[i + 1] ELSE default

\* lean::array_set(a, i, v): a write past the end is dropped
ArraySet(a, i, v) == IF i < Len(a) THEN [a EXCEPT ![i + 1] = v] ELSE a

\* ------------------------------------------------------------ Name order
\* Name.quickLt is a total order on names; lean_name_hash_usize is the
\* external hash.  Both are fixed functions of the name.
NameRank(n) ==
  CASE n = "a" -> 2 [] n = "b" -> 1 [] n = "c" -> 3
    [] n = "A" -> 4 [] n = "B" -> 5 [] n = "C" -> 6
    [] n = "k0" -> 10 [] n = "k1" -> 11 [] n = "k2" -> 12 [] n = "k3" -> 13
    [] n = "k4" -> 14 [] n = "k5" -> 15 [] n = "k6" -> 16 [] n = "k7" -> 17
    [] n = "k8" -> 18 [] n = "k9" -> 19 [] OTHER -> 0

quickLt(x, y) == NameRank(x) < NameRank(y)

NameHash(n) ==
  CASE n = "a" -> 3 [] n = "b" -> 11 [] n = "c" -> 5
    [] n = "A" -> 8 [] n = "B" -> 17 [] n = "C" -> 2
    [] n = "k0" -> 0 [] n = "k1" -> 8 [] n = "k2" -> 16 [] n = "k3" -> 1
    [] n = "k4" -> 9 [] n = "k5" -> 2 [] n = "k6" -> 3 [] n = "k7" -> 4
    [] n = "k8" -> 12 [] n = "k9" -> 21 [] OTHER -> 0

\* --------------------------------------------------------------- AssocList
RECURSIVE AssocContains(_, _)
AssocContains(k, l) ==
  IF l = <<>> THEN FALSE
  ELSE IF Head(l)[1] = k THEN TRUE ELSE AssocContains(k, Tail(l))

RECURSIVE AssocFind(_, _)
AssocFind(k, l) ==
  IF l = <<>> THEN None
  ELSE IF Head(l)[1] = k THEN Some(Head(l)[2]) ELSE AssocFind(k, Tail(l))

RECURSIVE AssocReplace(_, _, _)
AssocReplace(k, v, l) ==
  IF l = <<>> THEN l
  ELSE IF Head(l)[1] = k THEN <<<<k, v>>>> \o Tail(l)
       ELSE <<Head(l)>> \o AssocReplace(k, v, Tail(l))

\* -------------------------------------------------------------- HashMapImp
NBuckets == 8

mkHashMapImp(n) == [size |-> 0, buckets |-> [i \in 1..n |-> <<>>]]

HashIdx(k, n) == (NameHash(k) % n) + 1

\* AssocList.foldl of the re-insertion step: every entry of l, head first,
\* is consed onto its bucket of the target array
RECURSIVE AssocFoldlReinsert(_, _)
AssocFoldlReinsert(target, l) ==
  IF l = <<>> THEN target
  ELSE LET k == Head(l)[1]
           i == HashIdx(k, Len(target))
       IN AssocFoldlReinsert([target EXCEPT ![i] = <<Head(l)>> \o target[i]], Tail(l))

RECURSIVE moveEntries(_, _, _)
moveEntries(i, source, target) ==
  IF ~(i < Len(source)) THEN target
  ELSE moveEntries(i + 1, source, AssocFoldlReinsert(target, source[i + 1]))

\* fault variant: the bucket array is doubled and the chains stay where they are
expandNoRehash(size, buckets) ==
  [size |-> size, buckets |-> buckets \o [i \in 1..Len(buckets) |-> <<>>]]

expand(size, buckets) ==
  LET nNew == Len(buckets) * 2
  IN [size |-> size, buckets |-> moveEntries(0, buckets, [i \in 1..nNew |-> <<>>])]

HashMapInsert(m, k, v) ==
  LET n == Len(m.buckets)
      i == HashIdx(k, n)
      bkt == m.buckets[i]
  IN IF ~AssocContains(k, bkt)
     THEN LET size2 == m.size + 1
              buckets2 == [m.buckets EXCEPT ![i] = <<<<k, v>>>> \o bkt]
          IN IF size2 <= n THEN [size |-> size2, buckets |-> buckets2]
             ELSE expand(size2, buckets2)
     ELSE [size |-> m.size, buckets |-> [m.buckets EXCEPT ![i] = AssocReplace(k, v, bkt)]]

HashMapFind(m, k) == AssocFind(k, m.buckets[HashIdx(k, Len(m.buckets))])

\* ------------------------------------------------------------------ RBMap
RECURSIVE RBInsert(_, _, _)
RBInsert(t, k, v) ==
  IF t = <<>> THEN <<<<k, v>>>>
  ELSE IF quickLt(k, Head(t)[1]) THEN <<<<k, v>>>> \o t
  ELSE IF quickLt(Head(t)[1], k) THEN <<Head(t)>> \o RBInsert(Tail(t), k, v)
  ELSE <<<<k, v>>>> \o Tail(t)

RECURSIVE RBFind(_, _)
RBFind(t, k) ==
  IF t = <<>> THEN None
  ELSE IF quickLt(k, Head(t)[1]) THEN None
  ELSE IF quickLt(Head(t)[1], k) THEN RBFind(Tail(t), k)
  ELSE Some(Head(t)[2])

\* ------------------------------------------------------------------- SMap
SMapEmpty == [stage1 |-> TRUE, map1 |-> mkHashMapImp(NBuckets), map2 |-> <<>>]

\* fault variant: in the second stage the hash map is written as well
SMapInsertBoth(m, k, v) ==
  IF m.stage1 THEN [m EXCEPT !.map1 = HashMapInsert(m.map1, k, v)]
  ELSE [m EXCEPT !.map1 = HashMapInsert(m.map1, k, v), !.map2 = RBInsert(m.map2, k, v)]

SMapInsert(m, k, v) ==
  IF m.stage1 THEN [m EXCEPT !.map1 = HashMapInsert(m.map1, k, v)]
  ELSE [m EXCEPT !.map2 = RBInsert(m.map2, k, v)]

\* fault variant: the hash map is consulted first in the second stage too
SMapFindHashFirst(m, k) ==
  LET r == HashMapFind(m.map1, k)
  IN IF m.stage1 \/ IsSome(r) THEN r ELSE RBFind(m.map2, k)

SMapFind(m, k) ==
  IF m.stage1 THEN HashMapFind(m.map1, k)
  ELSE LET r == RBFind(m.map2, k)
       IN IF IsSome(r) THEN r ELSE HashMapFind(m.map1, k)

\* fault variant: the stage is inverted, so a second switch goes back
SMapSwitchToggle(m) == [m EXCEPT !.stage1 = ~m.stage1]

SMapSwitch(m) == IF m.stage1 THEN [m EXCEPT !.stage1 = FALSE] ELSE m

\* ------------------------------------------------------------ Environment
\* instance : Inhabited Environment
DefaultEnv ==
  [const2ModIdx |-> mkHashMapImp(NBuckets), constants |-> SMapEmpty,
   extensions |-> <<>>, trustLevel |-> 0, quotInit |-> FALSE, imports |-> <<>>]

\* fault variant: the added name is entered in the import index as well
EnvAddIndexed(env, cinfo) ==
  [env EXCEPT !.constants = SMapInsert(env.constants, cinfo.name, cinfo),
              !.const2ModIdx = HashMapInsert(env.const2ModIdx, cinfo.name, 0)]

EnvAdd(env, cinfo) ==
  [env EXCEPT !.constants = SMapInsert(env.constants, cinfo.name, cinfo)]

EnvFind(env, n) == SMapFind(env.constants, n)

EnvContains(env, n) == IsSome(SMapFind(env.constants, n))

EnvSwitch(env) == [env EXCEPT !.constants = SMapSwitch(env.constants)]

\* fault variant: the flag is inverted instead of set
EnvMarkQuotInitFlip(env) == [env EXCEPT !.quotInit = ~env.quotInit]

EnvMarkQuotInit(env) == [env EXCEPT !.quotInit = TRUE]

isQuotInit(env) == env.quotInit

getTrustLevel(env) == env.trustLevel

getModuleIdxFor(env, c) == HashMapFind(env.const2ModIdx, c)

\* ----------------------------------------------------------- EnvExtension
\* l_Lean_EnvExtensionState_Inhabited, the value array_get falls back to
DefaultState == 0

\* fault variant: the slots after the written one are dropped
setStateUnsafeTruncate(ext, env, s) ==
  [env EXCEPT !.extensions =
     SubSeq(ArraySet(env.extensions, ext.idx, s), 1, ext.idx + 1)]

\* fault variant: the slot after the extension's own is written
setStateUnsafeNext(ext, env, s) ==
  [env EXCEPT !.extensions = ArraySet(env.extensions, ext.idx + 1, s)]

setStateUnsafe(ext, env, s) ==
  [env EXCEPT !.extensions = ArraySet(env.extensions, ext.idx, s)]

getStateUnsafe(ext, env) == ArrayGet(DefaultState, env.extensions, ext.idx)

\* ---------------------------------------------------------------- Thunk
\* A thunk is the closure it was built from: Thunk.pure v, or the deferred
\* fold of mkImportedStateThunk over its captured arguments.
ThunkPure(v) == [pure |-> TRUE, val |-> v, entries |-> <<>>, addEntryFn |-> "none"]

\* the user-supplied fold steps registered in this model:
\*   "sum"  : s + a       (the running total; ignores the isImported flag)
\*   "poly" : an injective encoding of the whole call history
ApplyAddEntryFn(fn, isImported, s, a) ==
  CASE fn = "sum" -> s + a
    [] fn = "poly" -> 4 * s + 2 * a + (IF isImported THEN 1 ELSE 0)
    [] OTHER -> s

RECURSIVE IterateEntries(_, _, _, _)
\* Array.iterate s (fun _ entry s => addEntryFn isImported s entry)
IterateEntries(fn, isImported, s, es) ==
  IF es = <<>> THEN s
  ELSE IterateEntries(fn, isImported, ApplyAddEntryFn(fn, isImported, s, Head(es)), Tail(es))

RECURSIVE IterateModules(_, _, _)
IterateModules(fn, s, ess) ==
  IF ess = <<>> THEN s
  ELSE IterateModules(fn, IterateEntries(fn, TRUE, s, Head(ess)), Tail(ess))

\* fault variant: the imported entries are left out of the aggregate
mkImportedStateThunkInitial(entries, initial, addEntryFn) == ThunkPure(initial)

mkImportedStateThunk(entries, initial, addEntryFn) ==
  [pure |-> FALSE, val |-> initial, entries |-> entries, addEntryFn |-> addEntryFn]

ThunkGet(t) == IF t.pure THEN t.val ELSE IterateModules(t.addEntryFn, t.val, t.entries)

\* ------------------------------------------------- PersistentEnvExtension
getEntries(pext, env) == getStateUnsafe(pext, env).entries

\* fault variant: the module index is taken one too far
getModuleEntriesNext(pext, env, m) ==
  ArrayGet(<<>>, getStateUnsafe(pext, env).importedEntries, m + 1)

getModuleEntries(pext, env, m) ==
  ArrayGet(<<>>, getStateUnsafe(pext, env).importedEntries, m)

\* fault variant: the new entry is recorded but a cached aggregate is kept as it was
addEntryStepStale(pext, s, a) == [s EXCEPT !.entries = <<a>> \o s.entries]

\* fault variant: the new entry is recorded and a cached aggregate is dropped
addEntryStepDrop(pext, s, a) == [s EXCEPT !.entries = <<a>> \o s.entries, !.state = None]

\* fault variant: the new entry is put behind the stored ones
addEntryStepAppend(pext, s, a) ==
  LET entries == Append(s.entries, a)
  IN IF ~IsSome(s.state) THEN [s EXCEPT !.entries = entries]
     ELSE [s EXCEPT !.entries = entries,
                    !.state = Some(ApplyAddEntryFn(pext.addEntryFn, FALSE, s.state[1], a))]

addEntryStep(pext, s, a) ==
  LET entries == <<a>> \o s.entries
  IN IF ~IsSome(s.state) THEN [s EXCEPT !.entries = entries]
     ELSE [s EXCEPT !.entries = entries,
                    !.state = Some(ApplyAddEntryFn(pext.addEntryFn, FALSE, s.state[1], a))]

RECURSIVE EntriesFoldr(_, _, _)
\* List.foldr (fun a s => addEntryFn false s a) init l
EntriesFoldr(fn, l, init) ==
  IF l = <<>> THEN init
  ELSE ApplyAddEntryFn(fn, FALSE, EntriesFoldr(fn, Tail(l), init), Head(l))

\* fault variant: without a cache the pending entries are left out
forceStateAuxImportedOnly(pext, s) ==
  IF IsSome(s.state) THEN s.state[1] ELSE ThunkGet(s.importedState)

forceStateAux(pext, s) ==
  IF IsSome(s.state) THEN s.state[1]
  ELSE EntriesFoldr(pext.addEntryFn, s.entries, ThunkGet(s.importedState))

\* fault variant: the pending entries are dropped once they are folded in
forceStateStepFlush(pext, s) ==
  [s EXCEPT !.state = Some(forceStateAux(pext, s)), !.entries = <<>>]

forceStateStep(pext, s) == [s EXCEPT !.state = Some(forceStateAux(pext, s))]

\* the closures handed to modifyState, by name
\* fault variant: the aggregate is computed at once, lazy or not
finalizeStepEager(pext, s) ==
  LET importedState ==
        mkImportedStateThunk(s.importedEntries, ThunkGet(pext.initial.importedState),
                             pext.addEntryFn)
  IN [s EXCEPT !.importedState = importedState,
               !.entries = <<>>,
               !.state = Some(ThunkGet(importedState))]

\* the state function finalizePersistentExtensions hands to modifyState
finalizeStep(pext, s) ==
  LET importedState ==
        mkImportedStateThunk(s.importedEntries, ThunkGet(pext.initial.importedState),
                             pext.addEntryFn)
  IN [s EXCEPT !.importedState = importedState,
               !.entries = <<>>,
               !.state = IF pext.lazy THEN None ELSE Some(ThunkGet(importedState))]

ApplyStateFn(f, s) ==
  CASE f.op = "addEntry" -> addEntryStep(f.pext, s, f.a)
    [] f.op = "forceState" -> forceStateStep(f.pext, s)
    [] f.op = "consMod" -> <<f.m>> \o s
    [] f.op = "pushImported" -> [s EXCEPT !.importedEntries = Append(s.importedEntries, f.entries)]
    [] f.op = "finalize" -> finalizeStep(f.pext, s)
    [] f.op = "flip" -> 5 - s
    [] OTHER -> s

modifyStateUnsafe(ext, env, f) ==
  IF ext.idx < Len(env.extensions)
  THEN [env EXCEPT !.extensions[ext.idx + 1] = ApplyStateFn(f, env.extensions[ext.idx + 1])]
  ELSE env

addEntry(pext, env, a) ==
  modifyStateUnsafe(pext, env, [op |-> "addEntry", pext |-> pext, a |-> a])

forceState(pext, env) ==
  modifyStateUnsafe(pext, env, [op |-> "forceState", pext |-> pext])

getState(pext, env) == forceStateAux(pext, getStateUnsafe(pext, env))

\* regModListExtension: the first extension registered, at slot 0
modListExtension == [idx |-> 0, initial |-> <<>>]

addModification(env, mod) ==
  modifyStateUnsafe(modListExtension, env, [op |-> "consMod", m |-> mod])

\* ================================================================= state
VARIABLES
  initializing,                \* IO.initializing
  envExtensionsRef,            \* registry of EnvExtension descriptors
  persistentEnvExtensionsRef,  \* registry of PersistentEnvExtension descriptors
  heap,                        \* cell -> Environment object
  refs,                        \* holder -> the cell it references, 0 for none
  ret,                         \* outcome of the last call
  hist,                        \* history of each holder's environment since its creation
  files,                       \* the module files findOLean/readModuleData see
  imp,                         \* the control state of importModules
  reg                          \* thread -> its registerEnvExtension call in progress

vars == <<initializing, envExtensionsRef, persistentEnvExtensionsRef, heap, refs,
          ret, hist, files, imp, reg>>

regVars == <<initializing, envExtensionsRef, persistentEnvExtensionsRef, reg>>

\* ------------------------------------------------------------- registries
\* fault variant: the slot handed out is one past the registry's size
RegEnvExtSkipSlot(init, exts, initState) ==
  IF ~init THEN [ok |-> FALSE, exts |-> exts, idx |-> 0]
  ELSE LET idx == Len(exts) + 1
       IN [ok |-> TRUE, exts |-> Append(exts, [idx |-> idx, initial |-> initState]),
           idx |-> idx]

\* fault variant: registration without the initialization check
RegEnvExtAnyTime(init, exts, initState) ==
  LET idx == Len(exts)
  IN [ok |-> TRUE, exts |-> Append(exts, [idx |-> idx, initial |-> initState]), idx |-> idx]

\* registerEnvExtensionUnsafe on the registry value exts
RegEnvExt(init, exts, initState) ==
  IF ~init THEN [ok |-> FALSE, exts |-> exts, idx |-> 0]
  ELSE LET idx == Len(exts)
           ext == [idx |-> idx, initial |-> initState]
       IN [ok |-> TRUE, exts |-> Append(exts, ext), idx |-> idx]

PersistentInitialState(descr) ==
  [importedEntries |-> <<>>, importedState |-> ThunkPure(descr.initState),
   entries |-> <<>>, state |-> Some(descr.initState)]

\* fault variant: the name is not looked up among the registered ones
RegPersistentEnvExtAnyName(init, exts, pExts, descr) ==
  LET s == PersistentInitialState(descr)
      r == RegEnvExt(init, exts, s)
  IN IF ~r.ok THEN [ok |-> FALSE, exts |-> exts, pExts |-> pExts, idx |-> 0]
     ELSE [ok |-> TRUE, exts |-> r.exts, idx |-> r.idx,
           pExts |-> Append(pExts, [idx |-> r.idx, initial |-> s, name |-> descr.name,
                                    addEntryFn |-> descr.addEntryFn,
                                    toArrayFn |-> "toArray", lazy |-> descr.lazy])]

\* fault variant: the slot is registered before the name is looked up
RegPersistentEnvExtSlotFirst(init, exts, pExts, descr) ==
  LET s == PersistentInitialState(descr)
      r == RegEnvExt(init, exts, s)
  IN IF ~r.ok THEN [ok |-> FALSE, exts |-> exts, pExts |-> pExts, idx |-> 0]
     ELSE IF \E i \in 1..Len(pExts) : pExts[i].name = descr.name
     THEN [ok |-> FALSE, exts |-> r.exts, pExts |-> pExts, idx |-> 0]
     ELSE [ok |-> TRUE, exts |-> r.exts, idx |-> r.idx,
           pExts |-> Append(pExts, [idx |-> r.idx, initial |-> s, name |-> descr.name,
                                    addEntryFn |-> descr.addEntryFn,
                                    toArrayFn |-> "toArray", lazy |-> descr.lazy])]

\* fault variant: a persistent extension is registered whatever the phase
RegPersistentEnvExtLate(init, exts, pExts, descr) ==
  IF \E i \in 1..Len(pExts) : pExts[i].name = descr.name
  THEN [ok |-> FALSE, exts |-> exts, pExts |-> pExts, idx |-> 0]
  ELSE LET s == PersistentInitialState(descr)
           r == RegEnvExt(TRUE, exts, s)
           pExt == [idx |-> r.idx, initial |-> s, name |-> descr.name,
                    addEntryFn |-> descr.addEntryFn, toArrayFn |-> "toArray",
                    lazy |-> descr.lazy]
       IN [ok |-> TRUE, exts |-> r.exts, pExts |-> Append(pExts, pExt), idx |-> r.idx]

\* registerPersistentEnvExtensionUnsafe on the registry values
RegPersistentEnvExt(init, exts, pExts, descr) ==
  IF \E i \in 1..Len(pExts) : pExts[i].name = descr.name
  THEN [ok |-> FALSE, exts |-> exts, pExts |-> pExts, idx |-> 0]
  ELSE LET s == PersistentInitialState(descr)
           r == RegEnvExt(init, exts, s)
       IN IF ~r.ok THEN [ok |-> FALSE, exts |-> exts, pExts |-> pExts, idx |-> 0]
          ELSE LET pExt == [idx |-> r.idx, initial |-> s, name |-> descr.name,
                            addEntryFn |-> descr.addEntryFn, toArrayFn |-> "toArray",
                            lazy |-> descr.lazy]
               IN [ok |-> TRUE, exts |-> r.exts, pExts |-> Append(pExts, pExt), idx |-> r.idx]

\* --------------------------------------------- extensions created from C++
\* a CPPExtensionState is an opaque object: a one-element sequence holding
\* its identity
CPPStates == {<<8>>, <<9>>}

\* EnvExtension.Inhabited: what exts.get yields when idx is out of range
DefaultExt == [idx |-> 0, initial |-> DefaultState]

\* exts.get idx
CPPExt(exts, idx) == ArrayGet(DefaultExt, exts, idx)

\* registerCPPExtension: the slot of the new extension, or none
registerCPPExtension(init, exts, initial) ==
  LET r == RegEnvExt(init, exts, initial)
  IN [exts |-> r.exts, res |-> IF r.ok THEN Some(r.idx) ELSE None]

\* fault variant: the state is written to the slot after idx
setCPPExtensionStateNext(exts, env, idx, s) ==
  setStateUnsafe(CPPExt(exts, idx + 1), env, s)

\* setCPPExtensionState: (exts.get idx).setState env s
setCPPExtensionState(exts, env, idx, s) == setStateUnsafe(CPPExt(exts, idx), env, s)

\* getCPPExtensionState: (exts.get idx).getState env
getCPPExtensionState(exts, env, idx) == getStateUnsafe(CPPExt(exts, idx), env)

DescrX == [name |-> "X", initState |-> 0, addEntryFn |-> "sum", lazy |-> FALSE]
DescrY == [name |-> "Y", initState |-> 1, addEntryFn |-> "poly", lazy |-> TRUE]
DescrX2 == [name |-> "X", initState |-> 1, addEntryFn |-> "poly", lazy |-> TRUE]
Descrs == {DescrX, DescrY, DescrX2}
PlainStates == {0, 5}

\* the registries as environment.lean's own initializers leave them:
\* mkEnvExtensionsRef, mkPersistentEnvExtensionsRef, regModListExtension
BootExts == RegEnvExt(TRUE, <<>>, <<>>).exts

\* a finished initialization: X, then Y, then one plain extension
StdRegX == RegPersistentEnvExt(TRUE, BootExts, <<>>, DescrX)
StdRegY == RegPersistentEnvExt(TRUE, StdRegX.exts, StdRegX.pExts, DescrY)
StdExts == RegEnvExt(TRUE, StdRegY.exts, 0).exts
StdPExts == StdRegY.pExts

\* history kept beside an environment: the <<slot, entry>> pairs passed to
\* addEntry, in call order; per name the declaration inserted last; the size
\* of the registry when the root ancestor was created; whether switch has
\* happened, and per name the declaration inserted last after it; whether
\* the call that created the root ancestor began during initialization
NoHist == [added |-> <<>>, last |-> [n \in AllNames |-> None], nexts |-> 0,
           switched |-> FALSE, lastAfter |-> [n \in AllNames |-> None],
           early |-> FALSE]

\* ModuleData.inhabited
NoData ==
  [imports |-> <<>>, constants |-> <<>>, entries |-> <<>>,
   serialized |-> [ok |-> TRUE, mods |-> <<>>]]

Ret(op, ok, who, val) ==
  [op |-> op, ok |-> ok, who |-> who, val |-> val, arg |-> "none", data |-> NoData]

IdleImp ==
  [pc |-> "idle", who |-> "none", roots |-> <<>>, trust |-> 0, stack |-> <<>>,
   visited |-> {}, mods |-> <<>>, env |-> DefaultEnv, k |-> 0,
   order |-> <<>>, findCalls |-> <<>>, readCalls |-> <<>>, failed |-> FALSE,
   nexts |-> 0, calls |-> <<>>, early |-> FALSE]

NoFiles == [m \in ModNames |-> [found |-> FALSE, readable |-> FALSE,
              data |-> [imports |-> <<>>, constants |-> <<>>, entries |-> <<>>,
                        serialized |-> [ok |-> TRUE, mods |-> <<>>]]]]

\* ------------------------------------------------------------------ cells
RC(i) == Cardinality({h \in Holders : refs[h] = i})

\* fault variant: every reference is treated as the only one
IsExclusiveAlways(h) == TRUE

\* lean::is_exclusive(x) on the holder's reference
IsExclusive(h) == RC(refs[h]) = 1

FreeCell(rf) == CHOOSE i \in Cells :
                  /\ \A h \in Holders : rf[h] # i
                  /\ \A j \in Cells : (\A h \in Holders : rf[h] # j) => i <= j

Holds(h) == refs[h] # 0

EnvOf(h) == heap[refs[h]]

\* The holder passes its reference to an operation that returns e2: the
\* cell is reused when the reference is exclusive, else the count of the
\* old cell drops by one and e2 is a new object.
Consume(h, e2) ==
  IF IsExclusive(h)
  THEN /\ heap' = [heap EXCEPT ![refs[h]] = e2]
       /\ refs' = refs
  ELSE LET j == FreeCell(refs)
       IN /\ heap' = [heap EXCEPT ![j] = e2]
          /\ refs' = [refs EXCEPT ![h] = j]

\* The holder drops what it holds, if anything, and receives the new object e.
Receive(h, e) ==
  LET rf == [refs EXCEPT ![h] = 0]
      j == FreeCell(rf)
  IN /\ refs' = [rf EXCEPT ![h] = j]
     /\ heap' = [i \in Cells |->
                   IF i = j THEN e
                   ELSE IF \A g \in Holders : rf[g] # i THEN DefaultEnv
                   ELSE heap[i]]

\* a thread's call of registerEnvExtension: not started, past the read of
\* the registry's size (idx), or returned; beside it, whether another call
\* was past its read and before its push when this one read, or the reverse
\* (raced), and the position its descriptor was pushed at (pos)
Threads == {"t1", "t2"}

IdleReg == [pc |-> "idle", idx |-> 0, initial |-> 0, raced |-> FALSE, pos |-> 0]

\* ------------------------------------------------------------------- Init
InitCommon ==
  /\ heap = [i \in Cells |-> DefaultEnv]
  /\ refs = [h \in Holders |-> 0]
  /\ ret = Ret("none", TRUE, "none", 0)
  /\ hist = [h \in Holders |-> NoHist]
  /\ imp = IdleImp
  /\ reg = [t \in Threads |-> IdleReg]

Init ==
  /\ initializing = TRUE
  /\ envExtensionsRef = BootExts
  /\ persistentEnvExtensionsRef = <<>>
  /\ files = NoFiles
  /\ InitCommon

\* --------------------------------------------------- registration actions
RegisterEnvExtension(initState) ==
  /\ initializing => Len(envExtensionsRef) < MaxExts
  /\ LET r == RegEnvExt(initializing, envExtensionsRef, initState)
     IN /\ envExtensionsRef' = r.exts
        /\ ret' = Ret("registerEnvExtension", r.ok, "none", r.idx)
  /\ UNCHANGED <<initializing, persistentEnvExtensionsRef, heap, refs, hist, files, imp, reg>>

RegisterPersistentEnvExtension(descr) ==
  /\ initializing => Len(envExtensionsRef) < MaxExts
  /\ LET r == RegPersistentEnvExt(initializing, envExtensionsRef,
                                  persistentEnvExtensionsRef, descr)
     IN /\ envExtensionsRef' = r.exts
        /\ persistentEnvExtensionsRef' = r.pExts
        /\ ret' = Ret("registerPersistentEnvExtension", r.ok, descr.name, r.idx)
  /\ UNCHANGED <<initializing, heap, refs, hist, files, imp, reg>>

\* fault variant: the size is read again when the descriptor is pushed
RegPushExtFresh(exts, idx, initState) ==
  Append(exts, [idx |-> Len(exts), initial |-> initState])

\* envExtensionsRef.modify (fun exts, exts.push ext), ext carrying the idx
\* computed from the earlier read
RegPushExt(exts, idx, initState) == Append(exts, [idx |-> idx, initial |-> initState])

\* registerEnvExtensionUnsafe up to and including let idx := exts.size
RegisterRead(t, initState) ==
  /\ reg[t].pc = "idle"
  /\ IF ~initializing
     THEN /\ reg' = [reg EXCEPT ![t].pc = "done"]
          /\ ret' = Ret("registerEnvExtension", FALSE, t, 0)
     ELSE /\ reg' = [u \in Threads |->
                      IF u = t
                      THEN [pc |-> "sized", idx |-> Len(envExtensionsRef),
                            initial |-> initState, pos |-> 0,
                            raced |-> \E v \in Threads \ {t} : reg[v].pc = "sized"]
                      ELSE IF reg[u].pc = "sized" THEN [reg[u] EXCEPT !.raced = TRUE]
                      ELSE reg[u]]
          /\ ret' = Ret("registerEnvExtension.read", TRUE, t, Len(envExtensionsRef))
  /\ UNCHANGED <<initializing, envExtensionsRef, persistentEnvExtensionsRef,
                 heap, refs, hist, files, imp>>

\* the rest of registerEnvExtensionUnsafe: the push and pure ext
RegisterPush(t) ==
  /\ reg[t].pc = "sized"
  /\ envExtensionsRef' = RegPushExt(envExtensionsRef, reg[t].idx, reg[t].initial)
  /\ reg' = [reg EXCEPT ![t].pc = "done", ![t].pos = Len(envExtensionsRef) + 1]
  /\ ret' = Ret("registerEnvExtension", TRUE, t, reg[t].idx)
  /\ UNCHANGED <<initializing, persistentEnvExtensionsRef, heap, refs, hist, files, imp>>

\* the runtime ends the initialization phase
FinishInit ==
  /\ initializing
  /\ initializing' = FALSE
  /\ ret' = Ret("finishInit", TRUE, "none", 0)
  /\ UNCHANGED <<envExtensionsRef, persistentEnvExtensionsRef, heap, refs, hist, files, imp, reg>>

\* fault variant: the extension registered last gets no slot
mkInitialExtensionStatesShort(exts) == [i \in 1..(Len(exts) - 1) |-> exts[i].initial]

mkInitialExtensionStates(exts) == [i \in 1..Len(exts) |-> exts[i].initial]

\* fault variant: the empty environment is built during initialization too
mkEmptyEnvironmentAnyTime(init, exts, trustLevel) ==
  [ok |-> TRUE,
   env |-> [const2ModIdx |-> mkHashMapImp(NBuckets), constants |-> SMapEmpty,
            extensions |-> [i \in 1..Len(exts) |-> exts[i].initial],
            trustLevel |-> trustLevel, quotInit |-> FALSE, imports |-> <<>>]]

\* fault variant: the trust level asked for is ignored
mkEmptyEnvironmentUntrusted(init, exts, trustLevel) ==
  IF init THEN [ok |-> FALSE, env |-> DefaultEnv]
  ELSE [ok |-> TRUE,
        env |-> [const2ModIdx |-> mkHashMapImp(NBuckets), constants |-> SMapEmpty,
                 extensions |-> [i \in 1..Len(exts) |-> exts[i].initial],
                 trustLevel |-> 0, quotInit |-> FALSE, imports |-> <<>>]]

\* mkEmptyEnvironment: an error while initializing, else the empty environment
mkEmptyEnvironment(init, exts, trustLevel) ==
  IF init THEN [ok |-> FALSE, env |-> DefaultEnv]
  ELSE [ok |-> TRUE,
        env |-> [const2ModIdx |-> mkHashMapImp(NBuckets), constants |-> SMapEmpty,
                 extensions |-> mkInitialExtensionStates(exts),
                 trustLevel |-> trustLevel, quotInit |-> FALSE, imports |-> <<>>]]

MkEmptyEnvironment(h, trustLevel) ==
  /\ imp.pc = "idle"
  /\ LET r == mkEmptyEnvironment(initializing, envExtensionsRef, trustLevel)
     IN IF ~r.ok
        THEN /\ ret' = Ret("mkEmptyEnvironment", FALSE, h, 0)
             /\ UNCHANGED <<heap, refs, hist>>
        ELSE /\ Receive(h, r.env)
             /\ ret' = Ret("mkEmptyEnvironment", TRUE, h, trustLevel)
             /\ hist' = [hist EXCEPT ![h] = [NoHist EXCEPT !.nexts = Len(envExtensionsRef)]]
  /\ UNCHANGED <<regVars, files, imp>>

\* ------------------------------------------------------ environment actions
Ready(h) == Holds(h) /\ imp.pc = "idle"

Add(h, cinfo) ==
  /\ Ready(h)
  /\ Consume(h, EnvAdd(EnvOf(h), cinfo))
  /\ hist' = [hist EXCEPT ![h].last[cinfo.name] = Some(cinfo),
                          ![h].lastAfter[cinfo.name] =
                            IF hist[h].switched THEN Some(cinfo) ELSE None]
  /\ ret' = Ret("pure", TRUE, h, 0)
  /\ UNCHANGED <<regVars, files, imp>>

Switch(h) ==
  /\ Ready(h)
  /\ Consume(h, EnvSwitch(EnvOf(h)))
  /\ hist' = [hist EXCEPT ![h].switched = TRUE]
  /\ ret' = Ret("pure", TRUE, h, 0)
  /\ UNCHANGED <<regVars, files, imp>>

MarkQuotInit(h) ==
  /\ Ready(h)
  /\ Consume(h, EnvMarkQuotInit(EnvOf(h)))
  /\ ret' = Ret("pure", TRUE, h, 0)
  /\ UNCHANGED <<regVars, hist, files, imp>>

\* the extensions registered through registerEnvExtension alone, other than
\* modListExtension: their state is a number
PlainExts ==
  {i \in 2..Len(envExtensionsRef) :
     \A j \in 1..Len(persistentEnvExtensionsRef) :
        persistentEnvExtensionsRef[j].idx # envExtensionsRef[i].idx}

SetState(h, i, s) ==
  /\ Ready(h)
  /\ i \in PlainExts
  /\ Consume(h, setStateUnsafe(envExtensionsRef[i], EnvOf(h), s))
  /\ ret' = Ret("pure", TRUE, h, 0)
  /\ UNCHANGED <<regVars, hist, files, imp>>

ModifyState(h, i) ==
  /\ Ready(h)
  /\ i \in PlainExts
  /\ Consume(h, modifyStateUnsafe(envExtensionsRef[i], EnvOf(h), [op |-> "flip"]))
  /\ ret' = Ret("pure", TRUE, h, 0)
  /\ UNCHANGED <<regVars, hist, files, imp>>

AddModification(h, mod) ==
  /\ Ready(h)
  /\ Len(getStateUnsafe(modListExtension, EnvOf(h))) < MaxMods
  /\ Consume(h, addModification(EnvOf(h), mod))
  /\ ret' = Ret("pure", TRUE, h, 0)
  /\ UNCHANGED <<regVars, hist, files, imp>>

AddEntry(h, p, a) ==
  /\ Ready(h)
  /\ p \in 1..Len(persistentEnvExtensionsRef)
  /\ LET pext == persistentEnvExtensionsRef[p]
     IN /\ Cardinality({i \in 1..Len(hist[h].added) :
                          hist[h].added[i][1] = pext.idx}) < MaxEntries
        /\ Consume(h, addEntry(pext, EnvOf(h), a))
        /\ hist' = [hist EXCEPT ![h].added = Append(hist[h].added, <<pext.idx, a>>)]
  /\ ret' = Ret("pure", TRUE, h, 0)
  /\ UNCHANGED <<regVars, files, imp>>

ForceState(h, p) ==
  /\ Ready(h)
  /\ p \in 1..Len(persistentEnvExtensionsRef)
  /\ Consume(h, forceState(persistentEnvExtensionsRef[p], EnvOf(h)))
  /\ ret' = Ret("pure", TRUE, h, 0)
  /\ UNCHANGED <<regVars, hist, files, imp>>

\* ------------------------------------------------ calls made from C++
RegisterCPPExtension(initial) ==
  /\ initializing => Len(envExtensionsRef) < MaxExts
  /\ LET r == registerCPPExtension(initializing, envExtensionsRef, initial)
     IN /\ envExtensionsRef' = r.exts
        /\ ret' = Ret("registerCPPExtension", IsSome(r.res), "none",
                      IF IsSome(r.res) THEN r.res[1] ELSE 0)
  /\ UNCHANGED <<initializing, persistentEnvExtensionsRef, heap, refs, hist, files, imp, reg>>

SetCPPExtensionState(h, idx, s) ==
  /\ Ready(h)
  /\ Consume(h, setCPPExtensionState(envExtensionsRef, EnvOf(h), idx, s))
  /\ ret' = [Ret("pure", TRUE, h, idx) EXCEPT !.arg = "setCPPExtensionState"]
  /\ UNCHANGED <<regVars, hist, files, imp>>

\* the state returned is kept in ret.val
GetCPPExtensionState(h, idx) ==
  /\ Ready(h)
  /\ ret' = [Ret("getCPPExtensionState", TRUE, h,
                 getCPPExtensionState(envExtensionsRef, EnvOf(h), idx))
               EXCEPT !.arg = "read"]
  /\ UNCHANGED <<regVars, heap, refs, hist, files, imp>>

\* getState borrows the environment and returns the aggregate
GetState(h, p) ==
  /\ Ready(h)
  /\ p \in 1..Len(persistentEnvExtensionsRef)
  /\ ret' = [Ret("getState", TRUE, h, getState(persistentEnvExtensionsRef[p], EnvOf(h)))
               EXCEPT !.arg = persistentEnvExtensionsRef[p].name]
  /\ UNCHANGED <<regVars, heap, refs, hist, files, imp>>

\* a second holder takes a reference to the same object (lean::inc)
Share(h, g) ==
  /\ Ready(h)
  /\ g # h
  /\ refs[g] # refs[h]
  /\ LET rf == [refs EXCEPT ![g] = refs[h]]
     IN /\ refs' = rf
        /\ heap' = [i \in Cells |->
                      IF \A x \in Holders : rf[x] # i THEN DefaultEnv ELSE heap[i]]
  /\ hist' = [hist EXCEPT ![g] = hist[h]]
  /\ ret' = Ret("share", TRUE, g, 0)
  /\ UNCHANGED <<regVars, files, imp>>

\* ---------------------------------------------------------------- importer
\* fault variant: only the first section of the module is looked at
getEntriesForFirstOnly(mod, extId, i) ==
  IF i < Len(mod.entries) /\ mod.entries[i + 1][1] = extId
  THEN mod.entries[i + 1][2]
  ELSE <<>>

RECURSIVE getEntriesFor(_, _, _)
getEntriesFor(mod, extId, i) ==
  IF i < Len(mod.entries)
  THEN LET curr == mod.entries[i + 1]
       IN IF curr[1] = extId THEN curr[2] ELSE getEntriesFor(mod, extId, i + 1)
  ELSE <<>>

RECURSIVE setImportedEntriesExts(_, _, _, _)
\* pExtDescrs.iterate env: push mod's entries for every persistent extension
setImportedEntriesExts(env, mod, pExts, j) ==
  IF ~(j < Len(pExts)) THEN env
  ELSE LET extDescr == pExts[j + 1]
           entries == getEntriesFor(mod, extDescr.name, 0)
       IN setImportedEntriesExts(
            modifyStateUnsafe(extDescr, env, [op |-> "pushImported", entries |-> entries]),
            mod, pExts, j + 1)

RECURSIVE setImportedEntriesModsBackwards(_, _, _, _)
\* fault variant: the modules are visited from the last to the first
setImportedEntriesModsBackwards(env, mods, pExts, i) ==
  IF ~(i < Len(mods)) THEN env
  ELSE setImportedEntriesModsBackwards(
         setImportedEntriesExts(env, mods[Len(mods) - i], pExts, 0), mods, pExts, i + 1)

RECURSIVE setImportedEntriesMods(_, _, _, _)
\* mods.iterate env: the modules in list order
setImportedEntriesMods(env, mods, pExts, i) ==
  IF ~(i < Len(mods)) THEN env
  ELSE setImportedEntriesMods(setImportedEntriesExts(env, mods[i + 1], pExts, 0),
                              mods, pExts, i + 1)

setImportedEntries(env, mods, pExts) == setImportedEntriesMods(env, mods, pExts, 0)

RECURSIVE finalizeAux(_, _, _)
finalizeAux(env, pExts, j) ==
  IF ~(j < Len(pExts)) THEN env
  ELSE finalizeAux(
         modifyStateUnsafe(pExts[j + 1], env, [op |-> "finalize", pext |-> pExts[j + 1]]),
         pExts, j + 1)

finalizePersistentExtensions(env, pExts) == finalizeAux(env, pExts, 0)

RECURSIVE Const2ModIdxConsts(_, _, _)
Const2ModIdxConsts(m, cs, modIdx) ==
  IF cs = <<>> THEN m
  ELSE Const2ModIdxConsts(HashMapInsert(m, Head(cs).name, modIdx), Tail(cs), modIdx)

RECURSIVE Const2ModIdxModsOneBased(_, _, _)
\* fault variant: module positions are counted from one
Const2ModIdxModsOneBased(m, mods, i) ==
  IF ~(i < Len(mods)) THEN m
  ELSE Const2ModIdxModsOneBased(Const2ModIdxConsts(m, mods[i + 1].constants, i + 1),
                                mods, i + 1)

RECURSIVE Const2ModIdxMods(_, _, _)
Const2ModIdxMods(m, mods, i) ==
  IF ~(i < Len(mods)) THEN m
  ELSE Const2ModIdxMods(Const2ModIdxConsts(m, mods[i + 1].constants, i), mods, i + 1)

RECURSIVE ConstantsConsts(_, _)
ConstantsConsts(cs, consts) ==
  IF consts = <<>> THEN cs
  ELSE ConstantsConsts(SMapInsert(cs, Head(consts).name, Head(consts)), Tail(consts))

RECURSIVE ConstantsMods(_, _, _)
ConstantsMods(cs, mods, i) ==
  IF ~(i < Len(mods)) THEN cs
  ELSE ConstantsMods(ConstantsConsts(cs, mods[i + 1].constants), mods, i + 1)

\* fault variant: the quotient module counts as initialized by every import
importedQuotInitAlways(modNames) == TRUE

\* quotInit := !modNames.isEmpty
importedQuotInit(modNames) == ~(modNames = <<>>)

\* importModules from the module list to the finalized environment
importedEnvironment(modNames, trustLevel, mods, exts, pExts) ==
  LET const2ModIdx == Const2ModIdxMods(mkHashMapImp(NBuckets), mods, 0)
      constants == SMapSwitch(ConstantsMods(SMapEmpty, mods, 0))
      env == [const2ModIdx |-> const2ModIdx, constants |-> constants,
              extensions |-> mkInitialExtensionStates(exts),
              quotInit |-> importedQuotInit(modNames), trustLevel |-> trustLevel,
              imports |-> modNames]
  IN finalizePersistentExtensions(setImportedEntries(env, mods, pExts), pExts)

RECURSIVE ReplayMods(_, _)
ReplayMods(env, ms) ==
  IF ms = <<>> THEN env ELSE ReplayMods(addModification(env, Head(ms)), Tail(ms))

\* lean_perform_serialized_modifications: the bytes either fail to replay or
\* replay their modification objects onto the environment, in order
performModifications(env, bytes) ==
  IF ~bytes.ok THEN [ok |-> FALSE, env |-> env]
  ELSE [ok |-> TRUE, env |-> ReplayMods(env, bytes.mods)]

RECURSIVE FlatConstants(_)
\* the declarations of the module list, in module order then file order
FlatConstants(mods) ==
  IF mods = <<>> THEN <<>> ELSE Head(mods).constants \o FlatConstants(Tail(mods))

LastImported(mods) ==
  LET flat == FlatConstants(mods)
  IN [n \in AllNames |->
        IF \E i \in 1..Len(flat) : flat[i].name = n
        THEN LET i == CHOOSE i \in 1..Len(flat) :
                        /\ flat[i].name = n
                        /\ \A j \in (i + 1)..Len(flat) : flat[j].name # n
             IN Some(flat[i])
        ELSE None]

\* NameSet.contains / NameSet.insert on the visited set
VisitedContains(s, m) == m \in s

\* fault variant: the visited set is never extended
VisitedInsertNothing(s, m) == s

VisitedInsert(s, m) == s \cup {m}

\* findOLean / readModuleData throw
FindFails(f) == ~f.found

\* fault variant: a file that does not deserialize is taken as an empty module
ReadFailsNever(f) == FALSE

ReadFails(f) == ~f.readable

\* fault variant: the module is put in front of the list
PushModFront(mods, mod) == <<mod>> \o mods

\* mods.push mod
PushMod(mods, mod) == Append(mods, mod)

\* fault variant: the call goes on with the whole list again
RemainingModulesAll(pending) == pending

\* the pattern m::ms: every later call of importModulesAux on this list is
\* on the tail ms
RemainingModules(pending) == Tail(pending)

RootLists == {<<>>} \cup {<<m>> : m \in ModNames} \cup {<<m, n>> : m \in ModNames, n \in ModNames}

ImportStart(h, modNames, trustLevel) ==
  /\ imp.pc = "idle"
  /\ imp' = [IdleImp EXCEPT !.pc = "aux", !.who = h, !.roots = modNames,
                            !.trust = trustLevel, !.early = initializing,
                            !.stack = <<[pending |-> modNames, mod |-> None]>>]
  /\ ret' = Ret("importModules.call", TRUE, h, 0)
  /\ UNCHANGED <<regVars, heap, refs, hist, files>>

ImportFailed(findCalls, readCalls) ==
  /\ imp' = [imp EXCEPT !.pc = "idle", !.failed = TRUE,
                        !.findCalls = findCalls, !.readCalls = readCalls]
  /\ ret' = Ret("importModules", FALSE, imp.who, 0)

\* one iteration of importModulesAux; the frame on top of the stack is the
\* call in progress, its mod the module pushed when its list is exhausted
ImportAux ==
  /\ imp.pc = "aux"
  /\ LET top == Len(imp.stack)
         f == imp.stack[top]
     IN IF f.pending = <<>>
        THEN LET stack2 == SubSeq(imp.stack, 1, top - 1)
                 mods2 == IF IsSome(f.mod) THEN PushMod(imp.mods, files[f.mod[1]].data)
                          ELSE imp.mods
                 order2 == IF IsSome(f.mod) THEN PushMod(imp.order, f.mod[1])
                           ELSE imp.order
             IN /\ imp' = [imp EXCEPT !.stack = stack2, !.mods = mods2, !.order = order2,
                                      !.pc = IF stack2 = <<>> THEN "build" ELSE "aux"]
                /\ ret' = ret
        ELSE LET m == Head(f.pending)
                 rest == [imp.stack EXCEPT ![top].pending = RemainingModules(f.pending)]
             IN IF VisitedContains(imp.visited, m)
                THEN imp' = [imp EXCEPT !.stack = rest] /\ ret' = ret
                ELSE IF FindFails(files[m])
                THEN ImportFailed(Append(imp.findCalls, m), imp.readCalls)
                ELSE IF ReadFails(files[m])
                THEN ImportFailed(Append(imp.findCalls, m), Append(imp.readCalls, m))
                ELSE /\ imp' = [imp EXCEPT
                                  !.visited = VisitedInsert(imp.visited, m),
                                  !.findCalls = Append(imp.findCalls, m),
                                  !.readCalls = Append(imp.readCalls, m),
                                  !.stack = Append(rest, [pending |-> files[m].data.imports,
                                                          mod |-> Some(m)])]
                     /\ ret' = ret
  /\ UNCHANGED <<regVars, heap, refs, hist, files>>

ImportBuild ==
  /\ imp.pc = "build"
  /\ imp' = [imp EXCEPT !.pc = "perform", !.k = 0, !.nexts = Len(envExtensionsRef),
                        !.env = importedEnvironment(imp.roots, imp.trust, imp.mods,
                                                    envExtensionsRef,
                                                    persistentEnvExtensionsRef)]
  /\ UNCHANGED <<regVars, heap, refs, ret, hist, files>>

\* fault variant: every call is handed the bytes of the first module
performStepFirst(env, mods, k) ==
  LET r == performModifications(env, mods[1].serialized)
  IN [ok |-> r.ok, env |-> r.env,
      call |-> [arg |-> env, bytes |-> mods[1].serialized, ok |-> r.ok, res |-> r.env]]

\* the step function of mods.miterate env: performModifications env
\* mod.serialized for the module at position k, with a record of the call
performStep(env, mods, k) ==
  LET r == performModifications(env, mods[k + 1].serialized)
  IN [ok |-> r.ok, env |-> r.env,
      call |-> [arg |-> env, bytes |-> mods[k + 1].serialized, ok |-> r.ok, res |-> r.env]]

ImportPerform ==
  /\ imp.pc = "perform"
  /\ imp.k < Len(imp.mods)
  /\ LET r == performStep(imp.env, imp.mods, imp.k)
     IN IF r.ok
        THEN /\ imp' = [imp EXCEPT !.env = r.env, !.k = imp.k + 1,
                                   !.calls = Append(imp.calls, r.call)]
             /\ ret' = ret
        ELSE /\ imp' = [imp EXCEPT !.pc = "idle", !.failed = TRUE,
                                   !.calls = Append(imp.calls, r.call)]
             /\ ret' = Ret("importModules", FALSE, imp.who, 0)
  /\ UNCHANGED <<regVars, heap, refs, hist, files>>

ImportReturn ==
  /\ imp.pc = "perform"
  /\ imp.k = Len(imp.mods)
  /\ Receive(imp.who, imp.env)
  /\ hist' = [hist EXCEPT ![imp.who] = [NoHist EXCEPT !.last = LastImported(imp.mods),
                                                      !.nexts = imp.nexts,
                                                      !.early = imp.early,
                                                      !.switched = TRUE]]
  /\ imp' = [imp EXCEPT !.pc = "idle"]
  /\ ret' = Ret("importModules", TRUE, imp.who, 0)
  /\ UNCHANGED <<regVars, files>>

\* ------------------------------------------------------------ module files
ModData(imports, constants, entries, ok, mods) ==
  [imports |-> imports, constants |-> constants, entries |-> entries,
   serialized |-> [ok |-> ok, mods |-> mods]]

File(data) == [found |-> TRUE, readable |-> TRUE, data |-> data]
Missing == [found |-> FALSE, readable |-> FALSE, data |-> ModData(<<>>, <<>>, <<>>, TRUE, <<>>)]
Unreadable == [found |-> TRUE, readable |-> FALSE, data |-> ModData(<<>>, <<>>, <<>>, TRUE, <<>>)]

Decl(n, v) == [name |-> n, val |-> v]

\* ------------------------------------------------------------ mkModuleData
\* List.toArray, the default toArrayFn: the same elements in the same order
ApplyToArrayFn(fn, l) == CASE fn = "toArray" -> l

\* lean_serialize_modifications: the modification list, oldest first
serializeModifications(ms, ok) == [ok |-> ok, mods |-> IF ok THEN Reverse(ms) ELSE <<>>]

\* fault variant: the hash map of the first stage is pushed before the tree
foldStage2Both(m) ==
  LET RECURSIVE Flat(_)
      Flat(i) == IF i > Len(m.map1.buckets) THEN <<>>
                 ELSE [j \in 1..Len(m.map1.buckets[i]) |-> m.map1.buckets[i][j][2]]
                      \o Flat(i + 1)
  IN Flat(1) \o [i \in 1..Len(m.map2) |-> m.map2[i][2]]

\* SMap.foldStage2 (fun cs _ c, cs.push c) Array.empty: RBNode.fold over the
\* tree of the second stage, pushing each value in key order
foldStage2(m) == [i \in 1..Len(m.map2) |-> m.map2[i][2]]

\* fault variant: the entry list is stored newest first, as getEntries gives it
moduleEntriesUnreversed(pExts, env) ==
  [i \in 1..Len(pExts) |->
     <<pExts[i].name, ApplyToArrayFn(pExts[i].toArrayFn, getEntries(pExts[i], env))>>]

\* pExts.size.fold: one (name, toArrayFn entryList.reverse) per registered
\* persistent extension, pushed from position 0 upwards
moduleEntries(pExts, env) ==
  [i \in 1..Len(pExts) |->
     <<pExts[i].name,
       ApplyToArrayFn(pExts[i].toArrayFn, Reverse(getEntries(pExts[i], env)))>>]

\* fault variant: only the extension registered first gets a section
mkModuleDataFirstExt(env, pExts, bytes) ==
  IF ~bytes.ok THEN [ok |-> FALSE, data |-> NoData]
  ELSE [ok |-> TRUE,
        data |-> [imports |-> env.imports,
                  constants |-> foldStage2(env.constants),
                  entries |-> SubSeq(moduleEntries(pExts, env), 1, 1),
                  serialized |-> bytes]]

mkModuleData(env, pExts, bytes) ==
  IF ~bytes.ok THEN [ok |-> FALSE, data |-> NoData]
  ELSE [ok |-> TRUE,
        data |-> [imports |-> env.imports,
                  constants |-> foldStage2(env.constants),
                  entries |-> moduleEntries(pExts, env),
                  serialized |-> bytes]]

\* mkModuleData borrows nothing: the environment is consumed and dropped by the
\* callee, the holder keeps its own reference
MkModuleData(h, serOk) ==
  /\ Ready(h)
  /\ LET r == mkModuleData(EnvOf(h), persistentEnvExtensionsRef,
                           serializeModifications(
                             getStateUnsafe(modListExtension, EnvOf(h)), serOk))
     IN ret' = [Ret("mkModuleData", r.ok, h, 0) EXCEPT !.data = r.data]
  /\ UNCHANGED <<regVars, heap, refs, hist, files, imp>>

\* lean_save_module_data: the file of module m then reads back as the data
saveModuleData(fs, m, data) == [fs EXCEPT ![m] = File(data)]

\* writeModule: mkModuleData, then saveModuleData; a failure of the first
\* leaves the file system as it was
WriteModule(h, m, serOk) ==
  /\ Ready(h)
  /\ LET r == mkModuleData(EnvOf(h), persistentEnvExtensionsRef,
                           serializeModifications(
                             getStateUnsafe(modListExtension, EnvOf(h)), serOk))
     IN /\ files' = IF r.ok THEN saveModuleData(files, m, r.data) ELSE files
        /\ ret' = [Ret("writeModule", r.ok, h, 0) EXCEPT !.arg = m]
  /\ UNCHANGED <<regVars, heap, refs, hist, imp>>

\* B imports A; C imports B and A and carries a section of an unknown extension
ChainFS ==
  [m \in ModNames |->
     CASE m = "A" -> File(ModData(<<>>, <<Decl("a", 1)>>,
                                  <<<<"X", <<1, 2>>>>, <<"Y", <<0>>>>>>, TRUE, <<7>>))
       [] m = "B" -> File(ModData(<<"A">>, <<Decl("b", 1), Decl("a", 2)>>,
                                  <<<<"X", <<10>>>>>>, TRUE, <<>>))
       [] OTHER -> File(ModData(<<"B", "A">>, <<>>,
                                <<<<"Z", <<1>>>>, <<"Y", <<1, 0>>>>>>, TRUE, <<8>>))]

\* A and B both import C
DiamondFS ==
  [m \in ModNames |->
     CASE m = "A" -> File(ModData(<<"C">>, <<Decl("a", 1)>>, <<<<"Y", <<0>>>>>>, TRUE, <<>>))
       [] m = "B" -> File(ModData(<<"C">>, <<>>, <<<<"X", <<2>>>>>>, TRUE, <<>>))
       [] OTHER -> File(ModData(<<>>, <<Decl("b", 2)>>,
                                <<<<"X", <<1>>>>, <<"Y", <<1>>>>>>, TRUE, <<7>>))]

\* A and B import each other; C imports itself
CycleFS ==
  [m \in ModNames |->
     CASE m = "A" -> File(ModData(<<"B">>, <<Decl("a", 1)>>, <<<<"X", <<1>>>>>>, TRUE, <<>>))
       [] m = "B" -> File(ModData(<<"A">>, <<Decl("b", 1)>>, <<<<"X", <<2>>>>>>, TRUE, <<>>))
       [] OTHER -> File(ModData(<<"C">>, <<>>, <<>>, TRUE, <<>>))]

\* A imports C, whose file is missing; B's file does not deserialize
BrokenFS ==
  [m \in ModNames |->
     CASE m = "A" -> File(ModData(<<"C">>, <<Decl("a", 1)>>, <<>>, TRUE, <<>>))
       [] m = "B" -> Unreadable
       [] OTHER -> Missing]

\* B imports A; B's serialized modifications fail to replay
BadBytesFS ==
  [m \in ModNames |->
     CASE m = "A" -> File(ModData(<<>>, <<Decl("a", 1)>>, <<<<"X", <<1>>>>>>, TRUE, <<7>>))
       [] m = "B" -> File(ModData(<<"A">>, <<Decl("b", 1)>>, <<>>, FALSE, <<>>))
       [] OTHER -> File(ModData(<<>>, <<>>, <<>>, TRUE, <<>>))]

FileSystems == {ChainFS, DiamondFS, CycleFS, BrokenFS, BadBytesFS}

\* ========================================================= specifications
\* Spec: the process from the start of initialization on
Next ==
  \/ \E s \in PlainStates : RegisterEnvExtension(s)
  \/ \E d \in Descrs : RegisterPersistentEnvExtension(d)
  \/ FinishInit
  \/ \E t \in {0, 1} : MkEmptyEnvironment(H1, t)
  \/ \E i \in 1..MaxExts, s \in PlainStates : SetState(H1, i, s)
  \/ \E i \in 1..MaxExts : ModifyState(H1, i)
  \/ AddModification(H1, 7)

Spec == Init /\ [][Next]_vars

InitStd ==
  /\ initializing = FALSE
  /\ envExtensionsRef = StdExts
  /\ persistentEnvExtensionsRef = StdPExts
  /\ InitCommon

\* SpecExt: persistent extensions of one environment after initialization
InitExt == InitStd /\ files = ChainFS

ExtRoots == {<<>>, <<"A">>, <<"B">>}

NextExt ==
  \/ ~Holds(H1) /\ MkEmptyEnvironment(H1, 0)
  \/ \E r \in ExtRoots : ~Holds(H1) /\ ImportStart(H1, r, 0)
  \/ ImportAux
  \/ ImportBuild
  \/ ImportPerform
  \/ ImportReturn
  \/ Add(H1, Decl("a", 1))
  \/ Switch(H1)
  \/ MarkQuotInit(H1)
  \/ \E p \in 1..2, a \in Entries : AddEntry(H1, p, a)
  \/ \E p \in 1..2 : ForceState(H1, p)
  \/ \E p \in 1..2 : GetState(H1, p)

SpecExt == InitExt /\ [][NextExt]_vars

\* SpecSave: a module is elaborated and its data assembled
NextSave ==
  \/ ~Holds(H1) /\ MkEmptyEnvironment(H1, 0)
  \/ \E r \in {<<>>, <<"B">>} : ~Holds(H1) /\ ImportStart(H1, r, 0)
  \/ ImportAux
  \/ ImportBuild
  \/ ImportPerform
  \/ ImportReturn
  \/ \E c \in {Decl("a", 1), Decl("b", 2)} : Add(H1, c)
  \/ Switch(H1)
  \/ AddModification(H1, 7)
  \/ \E p \in 1..2, a \in Entries : AddEntry(H1, p, a)
  \/ \E serOk \in BOOLEAN : MkModuleData(H1, serOk)

SpecSave == InitExt /\ [][NextSave]_vars

\* SpecImport: importModules over the module files
InitImport == InitStd /\ files \in FileSystems

NextImport ==
  \/ \E r \in RootLists, t \in {0, 1} : ImportStart(H1, r, t)
  \/ ImportAux
  \/ ImportBuild
  \/ ImportPerform
  \/ ImportReturn

SpecImport == InitImport /\ [][NextImport]_vars

\* SpecImportFair: a call of importModulesAux in progress takes its next step
SpecImportFair == SpecImport /\ WF_vars(ImportAux)

\* SpecRace: two threads register an extension each, step by step
NextRace ==
  \/ \E t \in Threads, s \in PlainStates : RegisterRead(t, s)
  \/ \E t \in Threads : RegisterPush(t)
  \/ FinishInit
  \/ \E l \in {0, 1} : MkEmptyEnvironment(H1, l)
  \/ \E i \in 1..MaxExts, v \in PlainStates : SetState(H1, i, v)

SpecRace == Init /\ [][NextRace]_vars

\* SpecHash: the hash table of a declaration index filled past its buckets;
\* a name is first inserted once the names before it have been
NextHash ==
  \/ ~Holds(H1) /\ MkEmptyEnvironment(H1, 0)
  \/ \E i \in 1..Len(HashNames), v \in ConstVals :
       /\ Holds(H1)
       /\ \A j \in 1..(i - 1) : IsSome(hist[H1].last[HashNames[j]])
       /\ Add(H1, Decl(HashNames[i], v))

SpecHash == InitExt /\ [][NextHash]_vars

\* SpecIndex: an imported environment and the operations that derive from it
NextIndex ==
  \/ ~Holds(H1) /\ MkEmptyEnvironment(H1, 0)
  \/ \E r \in {<<"A">>, <<"C">>} : ~Holds(H1) /\ ImportStart(H1, r, 0)
  \/ ImportAux
  \/ ImportBuild
  \/ ImportPerform
  \/ ImportReturn
  \/ \E c \in {Decl("a", 2), Decl("b", 1)} : Add(H1, c)
  \/ Switch(H1)
  \/ SetState(H1, 4, 5)
  \/ ModifyState(H1, 4)
  \/ AddEntry(H1, 1, 1)
  \/ ForceState(H1, 2)

SpecIndex == InitExt /\ [][NextIndex]_vars

\* SpecMap: the declaration index
NextMap ==
  \/ MkEmptyEnvironment(H1, 0)
  \/ ImportStart(H1, <<"B">>, 0)
  \/ ImportAux
  \/ ImportBuild
  \/ ImportPerform
  \/ ImportReturn
  \/ \E c \in Decls : Add(H1, c)
  \/ Switch(H1)

SpecMap == InitExt /\ [][NextMap]_vars

\* SpecShare: two holders of environment objects
NextShare ==
  \/ ~Holds(H1) /\ MkEmptyEnvironment(H1, 0)
  \/ ~Holds(H1) /\ ImportStart(H1, <<"A">>, 1)
  \/ ImportAux
  \/ ImportBuild
  \/ ImportPerform
  \/ ImportReturn
  \/ Share(H1, "h2")
  \/ Add(H1, Decl("b", 1))
  \/ Switch(H1)
  \/ MarkQuotInit(H1)
  \/ SetState(H1, 4, 5)
  \/ ModifyState(H1, 4)
  \/ AddModification(H1, 7)
  \/ AddEntry(H1, 2, 1)
  \/ ForceState(H1, 2)

SpecShare == InitExt /\ [][NextShare]_vars

\* SpecCPP: extensions registered from C++ during initialization, then an
\* environment whose slots are written and read by index
CPPIdxs == 1..(MaxExts + 1)

NextCPP ==
  \/ \E s \in CPPStates : RegisterCPPExtension(s)
  \/ FinishInit
  \/ ~Holds(H1) /\ MkEmptyEnvironment(H1, 0)
  \/ \E idx \in CPPIdxs, s \in CPPStates : SetCPPExtensionState(H1, idx, s)
  \/ \E idx \in CPPIdxs : GetCPPExtensionState(H1, idx)

SpecCPP == Init /\ [][NextCPP]_vars

\* SpecTrip: a module C is elaborated over A or over nothing and written,
\* then imported by a second holder
TripFS == [ChainFS EXCEPT !["C"] = Missing]

Written(m) == files[m].found

InitTrip == InitStd /\ files = TripFS

NextTrip ==
  \/ ~Holds(H1) /\ MkEmptyEnvironment(H1, 0)
  \/ ~Holds(H1) /\ ImportStart(H1, <<"A">>, 0)
  \/ ImportAux
  \/ ImportBuild
  \/ ImportPerform
  \/ ImportReturn
  \/ \E p \in 1..2, a \in Entries : ~Written("C") /\ AddEntry(H1, p, a)
  \/ \E p \in 1..2 : ~Written("C") /\ ForceState(H1, p)
  \/ ~Written("C") /\ AddModification(H1, 7)
  \/ \E serOk \in BOOLEAN : ~Written("C") /\ WriteModule(H1, "C", serOk)
  \/ Written("C") /\ ~Holds("h2") /\ ImportStart("h2", <<"C">>, 0)

SpecTrip == InitTrip /\ [][NextTrip]_vars

\* SpecLife: registration during initialization, then an environment and
\* every operation that derives another one from it
InitLife ==
  /\ initializing = TRUE
  /\ envExtensionsRef = BootExts
  /\ persistentEnvExtensionsRef = <<>>
  /\ files = ChainFS
  /\ InitCommon

NextLife ==
  \/ RegisterEnvExtension(5)
  \/ \E d \in {DescrX, DescrY} : RegisterPersistentEnvExtension(d)
  \/ FinishInit
  \/ ~Holds(H1) /\ MkEmptyEnvironment(H1, 0)
  \/ ~Holds(H1) /\ ImportStart(H1, <<"A">>, 0)
  \/ ImportAux
  \/ ImportBuild
  \/ ImportPerform
  \/ ImportReturn
  \/ Add(H1, Decl("b", 1))
  \/ Switch(H1)
  \/ MarkQuotInit(H1)
  \/ \E i \in 1..MaxExts : SetState(H1, i, 0)
  \/ \E i \in 1..MaxExts : ModifyState(H1, i)
  \/ AddModification(H1, 7)
  \/ \E p \in 1..MaxExts : AddEntry(H1, p, 1)
  \/ \E p \in 1..MaxExts : ForceState(H1, p)

SpecLife == InitLife /\ [][NextLife]_vars

\* =================================================================
\* Properties
\* =================================================================

\* the persistent extensions of the finished registry, and their states
PExts == {persistentEnvExtensionsRef[i] : i \in 1..Len(persistentEnvExtensionsRef)}

PState(pext, env) == getStateUnsafe(pext, env)

RECURSIVE AddedTo(_, _)
\* the entries handed to addEntry for slot idx, oldest first
AddedTo(idx, h) ==
  IF h = <<>> THEN <<>>
  ELSE (IF Head(h)[1] = idx THEN <<Head(h)[2]>> ELSE <<>>) \o AddedTo(idx, Tail(h))

RECURSIVE LeftFold(_, _, _, _)
\* f(isImported, ... f(isImported, f(isImported, acc, e1), e2) ..., en)
LeftFold(fn, isImported, acc, es) ==
  IF es = <<>> THEN acc
  ELSE LeftFold(fn, isImported, ApplyAddEntryFn(fn, isImported, acc, Head(es)), Tail(es))

\* C1: for every persistent extension, getState on an environment equals the
\* left fold of addEntryFn (isImported = false) over the entries added to
\* that environment, in the order they were added, starting from the
\* imported aggregate; forceState and getState calls made in between the
\* additions do not change that value.
C1_GetStateIsLeftFold ==
  Holds(H1) =>
    \A pext \in PExts :
      getState(pext, EnvOf(H1)) =
        LeftFold(pext.addEntryFn, FALSE,
                 ThunkGet(PState(pext, EnvOf(H1)).importedState),
                 AddedTo(pext.idx, hist[H1].added))

\* C1 witness: an imported environment to which two different entries were
\* added for the lazy, order-sensitive extension, its aggregate forced.
C1_Witness ==
  /\ Holds(H1)
  /\ EnvOf(H1).imports # <<>>
  /\ \E pext \in PExts :
       /\ pext.addEntryFn = "poly"
       /\ AddedTo(pext.idx, hist[H1].added) = <<0, 1>>
       /\ IsSome(PState(pext, EnvOf(H1)).state)
       /\ ret.op = "getState"
       /\ ret.arg = pext.name
       /\ ret.val = getState(pext, EnvOf(H1))

\* the step is an addEntry of entry a by H1 on the extension pext
IsAddEntryStep(pext, a) ==
  /\ Holds(H1)
  /\ hist'[H1].added = Append(hist[H1].added, <<pext.idx, a>>)

\* C2: whenever the cached aggregate of a persistent extension is present
\* it equals the fold of addEntryFn (isImported = false) over the pending
\* entries starting from the imported aggregate, and addEntry extends a
\* present cache d to f(false, d, entry) and leaves an absent cache absent.
C2_CacheConsistent ==
  Holds(H1) =>
    \A pext \in PExts :
      LET s == PState(pext, EnvOf(H1))
      IN IsSome(s.state) =>
           s.state[1] = LeftFold(pext.addEntryFn, FALSE, ThunkGet(s.importedState),
                                 Reverse(s.entries))

C2_AddEntryExtends ==
  \A pext \in PExts : \A a \in Entries :
    IsAddEntryStep(pext, a) =>
      LET s == PState(pext, EnvOf(H1))
          t == PState(pext, EnvOf(H1)')
      IN /\ t.entries = <<a>> \o s.entries
         /\ IsSome(s.state) =>
              t.state = Some(ApplyAddEntryFn(pext.addEntryFn, FALSE, s.state[1], a))
         /\ ~IsSome(s.state) => ~IsSome(t.state)

C2_CacheExtended == []C2_CacheConsistent /\ [][C2_AddEntryExtends]_vars

\* C2 witness: a cache is present while entries are pending, and the last
\* operation was an addEntry.
C2_Witness ==
  /\ Holds(H1)
  /\ ret.op = "pure"
  /\ \E pext \in PExts :
       LET s == PState(pext, EnvOf(H1))
       IN /\ IsSome(s.state)
          /\ Len(s.entries) = 2
          /\ s.entries[1] # s.entries[2]
          /\ s.importedEntries # <<>>

\* everything a holder can observe of an environment value
Observe(env) ==
  [find |-> [n \in ConstNames |-> EnvFind(env, n)],
   contains |-> [n \in ConstNames |-> EnvContains(env, n)],
   modIdx |-> [n \in ConstNames |-> getModuleIdxFor(env, n)],
   quot |-> isQuotInit(env),
   trust |-> getTrustLevel(env),
   ext |-> [i \in 1..Len(envExtensionsRef) |-> getStateUnsafe(envExtensionsRef[i], env)],
   state |-> [i \in 1..Len(persistentEnvExtensionsRef) |->
                getState(persistentEnvExtensionsRef[i], env)],
   entries |-> [i \in 1..Len(persistentEnvExtensionsRef) |->
                  getEntries(persistentEnvExtensionsRef[i], env)],
   modEntries |-> [i \in 1..Len(persistentEnvExtensionsRef) |->
                     [m \in 0..Cardinality(ModNames) |->
                        getModuleEntries(persistentEnvExtensionsRef[i], env, m)]]]

\* C3: an operation that derives a new environment (add, switch,
\* markQuotInit, addEntry, forceState, setState, modifyState,
\* addModification) leaves every environment value held by another holder
\* observably unchanged: find, contains, getModuleIdxFor, isQuotInit, the
\* trust level and the extensions' getState, getEntries and
\* getModuleEntries answer as they did before the step.
C3_OthersUnchanged ==
  \A h \in Holders :
    (Holds(h) /\ ret'.who # h) =>
      /\ Holds(h)'
      /\ Observe(EnvOf(h))' = Observe(EnvOf(h))

C3_Persistence == [][C3_OthersUnchanged]_vars

\* C3 witness: both holders hold a value, the one of H1 was derived from the
\* shared one by its last operation, and the two values answer differently.
C3_Witness ==
  /\ \A h \in Holders : Holds(h)
  /\ ret.op = "pure"
  /\ ret.who = H1
  /\ refs[H1] # refs["h2"]
  /\ Observe(EnvOf(H1)) # Observe(EnvOf("h2"))

\* C4: find(env, n) returns the declaration most recently added or imported
\* under the name n, and none if no declaration named n was ever inserted,
\* wherever switch occurred in the sequence of insertions.
C4_LastWriteWins ==
  Holds(H1) =>
    \A n \in ConstNames : EnvFind(EnvOf(H1), n) = hist[H1].last[n]

\* C4 witness: a name inserted before switch and again, with another
\* declaration, after switch; find answers the later one.
C4_Witness ==
  /\ Holds(H1)
  /\ LET cs == EnvOf(H1).constants
     IN /\ ~cs.stage1
        /\ \E n \in ConstNames :
             /\ IsSome(HashMapFind(cs.map1, n))
             /\ IsSome(RBFind(cs.map2, n))
             /\ HashMapFind(cs.map1, n) # RBFind(cs.map2, n)
             /\ EnvFind(EnvOf(H1), n) = RBFind(cs.map2, n)

\* ---- the import graph of the files, read independently of the importer
SeqSet(q) == {q[i] : i \in 1..Len(q)}

NoDup(q) == \A i, j \in 1..Len(q) : q[i] = q[j] => i = j

Imports(m) == SeqSet(files[m].data.imports)

RECURSIVE Closure(_, _)
Closure(S, n) ==
  IF n = 0 THEN S ELSE Closure(S \cup UNION {Imports(m) : m \in S}, n - 1)

\* the modules reachable from the set S by following imports, S included
Reach(S) == Closure(S, Cardinality(ModNames))

\* a imports b through one or more import edges
TransImports(a, b) == b \in Reach(Imports(a))

Pos(q, m) == CHOOSE i \in 1..Len(q) : q[i] = m

DeclNames(m) == {files[m].data.constants[i].name : i \in 1..Len(files[m].data.constants)}

\* importModules has assembled the environment imp.env from the module list
\* and is about to replay the legacy modifications
ImportAssembled == imp.pc = "perform" /\ imp.k = 0

\* C5 as stated: if B imports A then A precedes B in the module list and
\* every declaration of A has a smaller module index than every declaration
\* of B, in the environment the import assembles.
C5_AsStated ==
  ImportAssembled =>
    \A A, B \in SeqSet(imp.order) :
      A \in Imports(B) =>
        /\ Pos(imp.order, A) < Pos(imp.order, B)
        /\ \A x \in DeclNames(A), y \in DeclNames(B) :
             getModuleIdxFor(imp.env, x)[1] < getModuleIdxFor(imp.env, y)[1]

\* C5 (amended): if B imports A and A does not transitively import B, then
\* A precedes B in the module list, and every declaration name of A that no
\* other imported module declares has a module index, that of A, smaller
\* than the module index of every declaration of B.
C5_TopologicalOrder ==
  /\ \A A, B \in SeqSet(imp.order) :
       (A \in Imports(B) /\ ~TransImports(A, B)) =>
         Pos(imp.order, A) < Pos(imp.order, B)
  /\ ImportAssembled =>
       \A B \in SeqSet(imp.order) : \A A \in Imports(B) :
         ~TransImports(A, B) =>
           /\ A \in SeqSet(imp.order)
           /\ \A x \in DeclNames(A), y \in DeclNames(B) :
                (\A M \in SeqSet(imp.order) \ {A} : x \notin DeclNames(M)) =>
                  /\ getModuleIdxFor(imp.env, x) = Some(Pos(imp.order, A) - 1)
                  /\ IsSome(getModuleIdxFor(imp.env, y))
                  /\ getModuleIdxFor(imp.env, x)[1] < getModuleIdxFor(imp.env, y)[1]

\* C5 witness: a chain C -> B -> A imported from C, listed A, B, C.
C5_Witness ==
  /\ ImportAssembled
  /\ imp.order = <<"A", "B", "C">>
  /\ "A" \in Imports("B") /\ "B" \in Imports("C")
  /\ getModuleIdxFor(imp.env, "b") = Some(1)

\* C6: findOLean and readModuleData are invoked at most once per module
\* name, and once the module list is complete every module reachable from
\* the roots appears in it exactly once, so that in the environment
\* assembled from it every persistent extension holds exactly one array of
\* imported entries per such module.
C6_EachModuleOnce ==
  /\ NoDup(imp.findCalls)
  /\ NoDup(imp.readCalls)
  /\ NoDup(imp.order)
  /\ ImportAssembled =>
       /\ SeqSet(imp.order) = Reach(SeqSet(imp.roots))
       /\ Len(imp.order) = Cardinality(Reach(SeqSet(imp.roots)))
       /\ imp.env.imports = imp.roots
       /\ \A pext \in PExts :
            LET s == PState(pext, imp.env)
            IN /\ Len(s.importedEntries) = Len(imp.order)
               /\ \A k \in 1..Len(imp.order) :
                    s.importedEntries[k] =
                      getEntriesFor(files[imp.order[k]].data, pext.name, 0)

\* C6 witness: a diamond, A and B both importing C, imported from [A, B];
\* or the same root given twice.
C6_Witness ==
  /\ ImportAssembled
  /\ \/ /\ imp.roots = <<"A", "B">>
        /\ "C" \in Imports("A") /\ "C" \in Imports("B")
        /\ imp.order = <<"C", "A", "B">>
     \/ /\ imp.roots = <<"A", "A">>
        /\ "C" \in Imports("A")
        /\ imp.order = <<"C", "A">>

\* every module file in S is found, deserializes and replays
AllGood(S) ==
  \A m \in S : files[m].found /\ files[m].readable /\ files[m].data.serialized.ok

C7_SuccessNeedsAllGood ==
  (ret.op = "importModules" /\ ret.ok) => AllGood(Reach(SeqSet(imp.roots)))

C7_FailureReturnsNothing ==
  (imp'.failed /\ ~imp.failed) =>
    /\ ~AllGood(Reach(SeqSet(imp.roots)))
    /\ ret'.op = "importModules" /\ ~ret'.ok
    /\ imp'.pc = "idle"
    /\ heap' = heap /\ refs' = refs
    /\ envExtensionsRef' = envExtensionsRef
    /\ persistentEnvExtensionsRef' = persistentEnvExtensionsRef

\* C7: an importModules call succeeds only if every module reached from
\* its roots is found, deserializes and has its modifications replayed; a
\* failing call returns the error, hands no environment to the caller
\* (what the caller held before is untouched) and leaves both extension
\* registries unchanged.
C7_FailurePolicy == []C7_SuccessNeedsAllGood /\ [][C7_FailureReturnsNothing]_vars

\* C7 witness: an import that failed in performModifications, after the
\* whole environment had been built.
C7_Witness ==
  /\ imp.failed
  /\ ret.op = "importModules" /\ ~ret.ok
  /\ imp.order # <<>>
  /\ imp.env.imports = imp.roots
  /\ \E m \in SeqSet(imp.order) : ~files[m].data.serialized.ok

\* the initial aggregate the extension was registered with
RegisteredInit(name) == (CHOOSE d \in {DescrX, DescrY} : d.name = name).initState

\* the entries the module file m stores for the extension called name
StoredEntries(m, name) ==
  LET es == files[m].data.entries
      I == {i \in 1..Len(es) : es[i][1] = name}
  IN IF I = {} THEN <<>> ELSE es[CHOOSE i \in I : \A j \in I : i <= j][2]

RECURSIVE ImportedFlat(_, _)
\* all imported entries of the extension, in module-list order
ImportedFlat(order, name) ==
  IF order = <<>> THEN <<>>
  ELSE StoredEntries(Head(order), name) \o ImportedFlat(Tail(order), name)

\* C8: in the environment importModules assembles, the imported aggregate
\* of every persistent extension is the fold of addEntryFn with isImported = true over the
\* imported entries in module-list order, each module's entries in stored
\* order, seeded with the registered initial aggregate, and getState
\* answers that aggregate; importing B (which imports A) with A storing
\* [1, 2] and B storing [10] for the summing extension gives 13.
C8_ImportedAggregate ==
  ImportAssembled =>
    /\ \A pext \in PExts :
         LET agg == LeftFold(pext.addEntryFn, TRUE, RegisteredInit(pext.name),
                             ImportedFlat(imp.order, pext.name))
         IN /\ ThunkGet(PState(pext, imp.env).importedState) = agg
            /\ getState(pext, imp.env) = agg
    /\ (files = ChainFS /\ imp.roots = <<"B">>) =>
         \E pext \in PExts : pext.name = "X" /\ getState(pext, imp.env) = 13

\* C8 witness: the import of B over A with [1, 2] and [10].
C8_Witness ==
  /\ ImportAssembled
  /\ imp.order = <<"A", "B">>
  /\ StoredEntries("A", "X") = <<1, 2>>
  /\ StoredEntries("B", "X") = <<10>>
  /\ \E pext \in PExts : pext.name = "X" /\ getState(pext, imp.env) = 13

C9_RegisterStep ==
  ret'.op = "registerEnvExtension" =>
    /\ ret'.ok => initializing
    /\ ~initializing =>
         /\ ~ret'.ok
         /\ envExtensionsRef' = envExtensionsRef
         /\ persistentEnvExtensionsRef' = persistentEnvExtensionsRef

\* C9: a registerEnvExtension call succeeds only while initializing; a call
\* after initialization has completed returns an error and leaves the
\* extension registry as it was.
C9_RegisterOnlyInitializing == [][C9_RegisterStep]_vars

\* C9 witness: a registration refused after initialization.
C9_Witness ==
  /\ ~initializing
  /\ ret.op = "registerEnvExtension"
  /\ ~ret.ok
  /\ Len(envExtensionsRef) < MaxExts

\* C10: while the process is initializing, every mkEmptyEnvironment call
\* has returned an error and no environment has been handed out.
C10_NoEmptyWhileInitializing ==
  initializing =>
    /\ \A h \in Holders : ~Holds(h)
    /\ ret.op = "mkEmptyEnvironment" => ~ret.ok

\* C10 witness: mkEmptyEnvironment was called during initialization.
C10_Witness ==
  /\ initializing
  /\ ret.op = "mkEmptyEnvironment"
  /\ ~ret.ok

\* C11: when not initializing, mkEmptyEnvironment(t) returns an environment
\* whose declaration index and import index are empty, whose imports list
\* is empty, whose quotInit is false, whose trust level is t and whose
\* extension state at every slot is the initial state registered for it.
C11_EmptyEnvironment ==
  (ret.op = "mkEmptyEnvironment" /\ ret.ok) =>
    /\ ~initializing
    /\ Holds(ret.who)
    /\ LET env == EnvOf(ret.who)
       IN /\ \A n \in ConstNames :
               /\ EnvFind(env, n) = None
               /\ ~EnvContains(env, n)
               /\ getModuleIdxFor(env, n) = None
          /\ env.constants = SMapEmpty
          /\ env.const2ModIdx.size = 0
          /\ env.imports = <<>>
          /\ ~isQuotInit(env)
          /\ getTrustLevel(env) = ret.val
          /\ Len(env.extensions) = Len(envExtensionsRef)
          /\ \A i \in 1..Len(envExtensionsRef) :
               /\ envExtensionsRef[i].initial = env.extensions[i]
               /\ getStateUnsafe(envExtensionsRef[i], env) = envExtensionsRef[i].initial

\* C11 witness: an empty environment of trust level 1 over a registry with
\* a persistent and a plain extension whose initial state is not the default.
C11_Witness ==
  /\ ret.op = "mkEmptyEnvironment" /\ ret.ok /\ ret.val = 1
  /\ Len(persistentEnvExtensionsRef) = 1
  /\ \E i \in PlainExts : envExtensionsRef[i].initial = 5
  /\ getTrustLevel(EnvOf(ret.who)) = 1

C12_SlotsArePositions ==
  \A i \in 1..Len(envExtensionsRef) : envExtensionsRef[i].idx = i - 1

C12_RegisterStep ==
  (ret'.op \in {"registerEnvExtension", "registerPersistentEnvExtension"} /\ ret'.ok) =>
    /\ ret'.val = Len(envExtensionsRef)
    /\ Len(envExtensionsRef') = Len(envExtensionsRef) + 1
    /\ SubSeq(envExtensionsRef', 1, Len(envExtensionsRef)) = envExtensionsRef
    /\ envExtensionsRef'[Len(envExtensionsRef')].idx = ret'.val

\* C12: the k-th successful registration, counting from 0, returns a
\* descriptor with idx = k and appends it to the registry; so at all times
\* the descriptor at position i of the registry has idx = i and no two
\* descriptors share a slot.
C12_SequentialSlots == []C12_SlotsArePositions /\ [][C12_RegisterStep]_vars

\* C12 witness: the third registration returned slot 2.
C12_Witness ==
  /\ ret.op = "registerEnvExtension" /\ ret.ok /\ ret.val = 2
  /\ Len(envExtensionsRef) = 3
  /\ envExtensionsRef[3].idx = 2

\* C13: for every environment reached from mkEmptyEnvironment or
\* importModules through add, setState, modifyState, addEntry, forceState,
\* addModification, switch and markQuotInit, the number of extension
\* states equals the number of extensions that were registered when its
\* root ancestor was created.
C13_ExtensionsLength ==
  \A h \in Holders :
    Holds(h) => Len(EnvOf(h).extensions) = hist[h].nexts

\* C13 witness: an environment imported while two extensions were
\* registered, after an entry was added, a state forced and a third
\* extension registered.
C13_Witness ==
  /\ Holds(H1)
  /\ Len(envExtensionsRef) = 3
  /\ EnvOf(H1).imports # <<>>
  /\ hist[H1].added # <<>>
  /\ hist[H1].nexts = 2
  /\ Len(EnvOf(H1).extensions) = 2

C14_NamesDistinct ==
  \A i, j \in 1..Len(persistentEnvExtensionsRef) :
    persistentEnvExtensionsRef[i].name = persistentEnvExtensionsRef[j].name => i = j

C14_DuplicateStep ==
  (/\ ret'.op = "registerPersistentEnvExtension"
   /\ \E i \in 1..Len(persistentEnvExtensionsRef) :
        persistentEnvExtensionsRef[i].name = ret'.who) =>
    /\ ~ret'.ok
    /\ envExtensionsRef' = envExtensionsRef
    /\ persistentEnvExtensionsRef' = persistentEnvExtensionsRef

\* C14: registerPersistentEnvExtension with the name of an already
\* registered persistent extension returns an error and changes neither
\* registry; the names in the persistent-extension registry are pairwise
\* distinct at all times.
C14_DuplicateNameRefused == []C14_NamesDistinct /\ [][C14_DuplicateStep]_vars

\* C14 witness: a second descriptor named X was refused while the process
\* was initializing and a slot was free.
C14_Witness ==
  /\ initializing
  /\ ret.op = "registerPersistentEnvExtension" /\ ~ret.ok /\ ret.who = "X"
  /\ Len(envExtensionsRef) < MaxExts
  /\ \E i \in 1..Len(persistentEnvExtensionsRef) : persistentEnvExtensionsRef[i].name = "X"

\* C15 as stated: after getState the cached aggregate of that extension is
\* present in the environment that was read.
C15_AsStated ==
  (ret.op = "getState" /\ Holds(ret.who)) =>
    \A pext \in PExts :
      pext.name = ret.arg => IsSome(PState(pext, EnvOf(ret.who)).state)

C15_GetStateStep ==
  ret'.op = "getState" =>
    /\ heap' = heap
    /\ refs' = refs
    /\ \A pext \in PExts :
         pext.name = ret'.arg =>
           LET s == PState(pext, EnvOf(ret'.who))
           IN ret'.val =
                IF IsSome(s.state) THEN s.state[1]
                ELSE LeftFold(pext.addEntryFn, FALSE, ThunkGet(s.importedState),
                              Reverse(s.entries))

\* C15 (amended): getState returns the cached aggregate if it is present;
\* otherwise it computes the full fold (the imported aggregate folded with
\* the current entries reversed) and returns it, and in both cases leaves
\* the environment as it was: an absent cache stays absent.
C15_GetStateDoesNotStore == [][C15_GetStateStep]_vars

\* C15 witness: getState answered for the lazy extension of an imported
\* environment with pending entries, and the cache is still absent.
C15_Witness ==
  /\ ret.op = "getState"
  /\ Holds(ret.who)
  /\ \E pext \in PExts :
       /\ pext.name = ret.arg
       /\ pext.lazy
       /\ PState(pext, EnvOf(ret.who)).entries # <<>>
       /\ PState(pext, EnvOf(ret.who)).importedEntries # <<>>
       /\ ~IsSome(PState(pext, EnvOf(ret.who)).state)

\* C16 as stated: getEntries returns the entries added to the environment
\* oldest first.
C16_AsStated ==
  Holds(H1) =>
    \A pext \in PExts :
      getEntries(pext, EnvOf(H1)) = AddedTo(pext.idx, hist[H1].added)

\* C16 (amended): getEntries returns the entries added to the environment
\* newest first, which is the storage order in which addEntry prepends
\* them; its reverse is the order in which they were added.
C16_GetEntriesNewestFirst ==
  Holds(H1) =>
    \A pext \in PExts :
      /\ getEntries(pext, EnvOf(H1)) = Reverse(AddedTo(pext.idx, hist[H1].added))
      /\ getEntries(pext, EnvOf(H1)) = PState(pext, EnvOf(H1)).entries

\* C16 witness: entry 0 was added before entry 1 and getEntries lists 1
\* first.
C16_Witness ==
  /\ Holds(H1)
  /\ \E pext \in PExts :
       /\ AddedTo(pext.idx, hist[H1].added) = <<0, 1>>
       /\ getEntries(pext, EnvOf(H1)) = <<1, 0>>

\* C17: getModuleEntries(env, m) is the entry sequence the m-th imported
\* module stores for the extension, whatever addEntry, forceState, add,
\* switch or markQuotInit did to the environment since the import, and it
\* is the empty sequence when m is not less than the number of imported
\* modules.
C17_ModuleEntriesFixed ==
  Holds(H1) =>
    \A pext \in PExts : \A m \in 0..Cardinality(ModNames) :
      getModuleEntries(pext, EnvOf(H1), m) =
        IF m < Len(imp.order) THEN StoredEntries(imp.order[m + 1], pext.name)
        ELSE <<>>

\* C17 witness: after the import of B over A, entries were added and the
\* aggregate forced; module 0 still answers A's entries and index 2 the
\* empty sequence.
C17_Witness ==
  /\ Holds(H1)
  /\ imp.order = <<"A", "B">>
  /\ \E pext \in PExts :
       /\ pext.name = "X"
       /\ Len(PState(pext, EnvOf(H1)).entries) = 2
       /\ getModuleEntries(pext, EnvOf(H1), 0) = <<1, 2>>
       /\ getModuleEntries(pext, EnvOf(H1), 1) = <<10>>
       /\ getModuleEntries(pext, EnvOf(H1), 2) = <<>>
  /\ ~EnvOf(H1).constants.stage1
  /\ EnvContains(EnvOf(H1), "a")

\* ---------------------------------------------------------------------
\* the state right after a successful mkModuleData on holder h
Saved(h) == ret.op = "mkModuleData" /\ ret.ok /\ ret.who = h

\* C18 as the specification states it: the constants section holds every
\* declaration that find reports for the environment, each name once,
\* whatever the stage in which it was inserted
C18_AsStated ==
  \A h \in Holders :
    Saved(h) =>
      /\ NoDup([i \in 1..Len(ret.data.constants) |-> ret.data.constants[i].name])
      /\ \A n \in ConstNames :
           LET r == EnvFind(EnvOf(h), n)
           IN IsSome(r) => r[1] \in SeqSet(ret.data.constants)

\* C18: the constants section of mkModuleData(env) holds exactly the
\* declarations inserted after the index was switched (the latest one per
\* name, each name once, in ascending key order); a declaration inserted or
\* imported before the switch and not inserted again is not part of it
C18_ConstantsAreStage2 ==
  \A h \in Holders :
    Saved(h) =>
      LET cs == ret.data.constants
      IN /\ NoDup([i \in 1..Len(cs) |-> cs[i].name])
         /\ \A i \in 1..Len(cs), j \in 1..Len(cs) :
              i < j => quickLt(cs[i].name, cs[j].name)
         /\ \A n \in ConstNames :
              /\ IsSome(hist[h].lastAfter[n]) => hist[h].lastAfter[n][1] \in SeqSet(cs)
              /\ ~IsSome(hist[h].lastAfter[n]) => \A i \in 1..Len(cs) : cs[i].name # n

C18_Witness ==
  /\ Saved(H1)
  /\ IsSome(hist[H1].last["a"]) /\ ~IsSome(hist[H1].lastAfter["a"])
  /\ IsSome(hist[H1].lastAfter["b"])
  /\ ret.data.constants = <<Decl("b", 2)>>
  /\ EnvFind(EnvOf(H1), "a") # None

\* ---------------------------------------------------------------------
\* C19: the entries section of mkModuleData(env) has one (name, entries)
\* pair per registered persistent extension, in registration order; the
\* entries of a pair are toArrayFn of what was added to that extension in
\* the current module, oldest first; the imports section is env.imports
C19_EntriesAndImports ==
  \A h \in Holders :
    Saved(h) =>
      /\ Len(ret.data.entries) = Len(persistentEnvExtensionsRef)
      /\ \A i \in 1..Len(persistentEnvExtensionsRef) :
           /\ ret.data.entries[i][1] = persistentEnvExtensionsRef[i].name
           /\ ret.data.entries[i][2] =
                ApplyToArrayFn(persistentEnvExtensionsRef[i].toArrayFn,
                               AddedTo(persistentEnvExtensionsRef[i].idx, hist[h].added))
      /\ ret.data.imports = EnvOf(h).imports

C19_Witness ==
  /\ Saved(H1)
  /\ ret.data.entries = <<<<"X", <<0, 1>>>>, <<"Y", <<1>>>>>>
  /\ ret.data.imports = <<"B">>
  /\ imp.roots = <<"B">>

\* ---------------------------------------------------------------------
\* C20: right after import finalization every persistent extension has no
\* current-module entries; a non-lazy one has its cache set to the imported
\* aggregate, a lazy one has an empty cache and an aggregate that is still
\* an unevaluated thunk over the imported entries
C20_AfterFinalization ==
  ImportAssembled =>
    \A pext \in PExts :
      LET st == PState(pext, imp.env)
          agg == LeftFold(pext.addEntryFn, TRUE, RegisteredInit(pext.name),
                          ImportedFlat(imp.order, pext.name))
      IN /\ st.entries = <<>>
         /\ ~pext.lazy => st.state = Some(agg)
         /\ pext.lazy => /\ st.state = None
                         /\ ~st.importedState.pure
                         /\ st.importedState.entries = st.importedEntries

C20_Witness ==
  /\ ImportAssembled
  /\ imp.order = <<"A", "B", "C">>
  /\ \E pext \in PExts :
       /\ pext.name = "X" /\ ~pext.lazy
       /\ PState(pext, imp.env).state = Some(13)
  /\ \E pext \in PExts :
       /\ pext.name = "Y" /\ pext.lazy
       /\ PState(pext, imp.env).state = None
       /\ PState(pext, imp.env).importedEntries = <<<<0>>, <<>>, <<1, 0>>>>

\* ---------------------------------------------------------------------
\* C21: in the environment importModules assembles from a module list of
\* length k, the importedEntries of every persistent extension has k inner
\* sequences; the i-th is what the i-th module stores under the
\* extension's name, and is empty when the module has no such section
C21_ImportedEntriesPerModule ==
  ImportAssembled =>
    \A pext \in PExts :
      LET ie == PState(pext, imp.env).importedEntries
      IN /\ Len(ie) = Len(imp.mods)
         /\ Len(imp.order) = Len(imp.mods)
         /\ \A i \in 1..Len(imp.mods) :
              /\ ie[i] = StoredEntries(imp.order[i], pext.name)
              /\ (\A j \in 1..Len(imp.mods[i].entries) :
                    imp.mods[i].entries[j][1] # pext.name) => ie[i] = <<>>

C21_Witness ==
  /\ ImportAssembled
  /\ imp.order = <<"A", "B", "C">>
  /\ \E pext \in PExts :
       pext.name = "X" /\ PState(pext, imp.env).importedEntries = <<<<1, 2>>, <<10>>, <<>>>>
  /\ \E pext \in PExts :
       pext.name = "Y" /\ PState(pext, imp.env).importedEntries = <<<<0>>, <<>>, <<1, 0>>>>

\* ---------------------------------------------------------------------
\* C22: the environment importModules builds for a root list has its
\* quotInit flag set exactly when the root list is not empty
C22_QuotInitIffRoots ==
  ImportAssembled => (isQuotInit(imp.env) <=> Len(imp.roots) > 0)

C22_Witness ==
  /\ ImportAssembled
  /\ imp.roots = <<"C", "A">>
  /\ isQuotInit(imp.env)
  /\ imp.env.imports = <<"C", "A">>

\* ---------------------------------------------------------------------
\* a step in which holder h derived a new environment from the one it held
Derives(h) == Holds(h) /\ ret'.op = "pure" /\ ret'.who = h

\* C23: along a chain of environments derived by add, setState,
\* modifyState, addEntry, forceState, addModification, switch and
\* markQuotInit, a set quotInit flag stays set, and the trust level and the
\* imports stay what they were
C23_DerivedKeeps ==
  \A h \in Holders :
    Derives(h) =>
      /\ Holds(h)'
      /\ isQuotInit(EnvOf(h)) => isQuotInit(EnvOf(h))'
      /\ getTrustLevel(EnvOf(h))' = getTrustLevel(EnvOf(h))
      /\ EnvOf(h).imports' = EnvOf(h).imports

C23_FlagsStable == [][C23_DerivedKeeps]_vars

C23_Witness ==
  /\ Holds(H1)
  /\ ret.op = "pure" /\ ret.who = H1
  /\ isQuotInit(EnvOf(H1))
  /\ getTrustLevel(EnvOf(H1)) = 1
  /\ EnvOf(H1).imports = <<"A">>
  /\ IsSome(hist[H1].lastAfter["b"])
  /\ Len(hist[H1].added) > 0
  /\ getStateUnsafe(modListExtension, EnvOf(H1)) # <<>>

\* ---------------------------------------------------------------------
\* switch keeps what find answers and switching twice is switching once
SwitchLaws(env) ==
  /\ \A n \in ConstNames : EnvFind(EnvSwitch(env), n) = EnvFind(env, n)
  /\ EnvSwitch(EnvSwitch(env)) = EnvSwitch(env)
  /\ ~EnvSwitch(env).constants.stage1

\* C24: for every environment the program reaches, switch preserves find
\* for every name and is idempotent, and no deriving operation takes an
\* index that has been switched back to its first stage
C24_SwitchStep ==
  \A h \in Holders :
    /\ Holds(h) => SwitchLaws(EnvOf(h))
    /\ Derives(h) =>
         /\ SwitchLaws(EnvOf(h))'
         /\ ~EnvOf(h).constants.stage1 => ~EnvOf(h).constants.stage1'

C24_SwitchOneWay == [][C24_SwitchStep]_vars

C24_Witness ==
  /\ Holds(H1)
  /\ ret.op = "pure" /\ ret.who = H1
  /\ ~EnvOf(H1).constants.stage1
  /\ hist[H1].switched
  /\ IsSome(hist[H1].last["a"]) /\ ~IsSome(hist[H1].lastAfter["a"])
  /\ IsSome(hist[H1].lastAfter["b"])
  /\ EnvFind(EnvOf(H1), "a") = hist[H1].last["a"]
  /\ EnvFind(EnvOf(H1), "b") = hist[H1].lastAfter["b"]

\* ---------------------------------------------------------------------
\* C25 as the specification states it: find answers what the hash table
\* holds for the key and consults the tree only when the hash table has
\* no entry for it
C25_AsStated ==
  \A h \in Holders :
    Holds(h) =>
      \A n \in ConstNames :
        LET c == EnvOf(h).constants
            inHash == HashMapFind(c.map1, n)
        IN EnvFind(EnvOf(h), n) = IF IsSome(inHash) THEN inHash ELSE RBFind(c.map2, n)

\* where find looks: before the switch in the hash table alone, after it in
\* the tree first and in the hash table only when the tree has no entry
LookupOrder(h) ==
  LET c == EnvOf(h).constants
  IN \A n \in ConstNames :
       LET inHash == HashMapFind(c.map1, n)
           inTree == RBFind(c.map2, n)
       IN /\ inTree = hist[h].lastAfter[n]
          /\ c.stage1 => /\ inTree = None
                         /\ inHash = hist[h].last[n]
                         /\ EnvFind(EnvOf(h), n) = inHash
          /\ ~c.stage1 => EnvFind(EnvOf(h), n) = IF IsSome(inTree) THEN inTree ELSE inHash

\* C25: find consults the hash table alone before the switch, and after it
\* the tree first and the hash table only for keys the tree lacks; an
\* insert changes the hash table alone before the switch and the tree
\* alone after it
C25_LookupStep ==
  \A h \in Holders :
    /\ Holds(h) => LookupOrder(h)
    /\ Derives(h) =>
         /\ LookupOrder(h)'
         /\ EnvOf(h).constants.stage1 => EnvOf(h).constants.map2' = EnvOf(h).constants.map2
         /\ ~EnvOf(h).constants.stage1 => EnvOf(h).constants.map1' = EnvOf(h).constants.map1

C25_TreeFirstAfterSwitch == [][C25_LookupStep]_vars

C25_Witness ==
  /\ Holds(H1)
  /\ ret.op = "pure" /\ ret.who = H1
  /\ ~EnvOf(H1).constants.stage1
  /\ HashMapFind(EnvOf(H1).constants.map1, "a") = Some(Decl("a", 1))
  /\ RBFind(EnvOf(H1).constants.map2, "a") = Some(Decl("a", 2))
  /\ EnvFind(EnvOf(H1), "a") = Some(Decl("a", 2))

\* ---------------------------------------------------------------------
\* values and state functions of the type of the i-th registered extension
SampleStates(i) ==
  IF i \in PlainExts THEN PlainStates
  ELSE IF i = 1 THEN {<<>>, <<7>>}
  ELSE {envExtensionsRef[i].initial}

SampleFns(i) ==
  IF i \in PlainExts THEN {[op |-> "flip"]}
  ELSE IF i = 1 THEN {[op |-> "consMod", m |-> 7]}
  ELSE {[op |-> o, pext |-> pext, a |-> 1] : o \in {"addEntry", "forceState", "finalize"},
                                             pext \in {p \in PExts : p.idx = envExtensionsRef[i].idx}}

\* r differs from env in the slot of ext at most
OnlySlotChanged(ext, env, r) ==
  /\ [r EXCEPT !.extensions = env.extensions] = env
  /\ Len(r.extensions) = Len(env.extensions)
  /\ \A j \in 1..Len(env.extensions) :
       j # ext.idx + 1 => r.extensions[j] = env.extensions[j]

\* C26: for every registered extension whose slot exists in a reachable
\* environment, getState after setState answers the state set, modifyState
\* with f equals setState with f of getState, and both change nothing but
\* that slot
C26_SetGetModify ==
  \A h \in Holders :
    Holds(h) =>
      \A i \in 1..Len(envExtensionsRef) :
        LET ext == envExtensionsRef[i]
            env == EnvOf(h)
        IN ext.idx < Len(env.extensions) =>
             /\ \A s \in SampleStates(i) :
                  /\ getStateUnsafe(ext, setStateUnsafe(ext, env, s)) = s
                  /\ OnlySlotChanged(ext, env, setStateUnsafe(ext, env, s))
             /\ \A f \in SampleFns(i) :
                  /\ modifyStateUnsafe(ext, env, f) =
                       setStateUnsafe(ext, env, ApplyStateFn(f, getStateUnsafe(ext, env)))
                  /\ OnlySlotChanged(ext, env, modifyStateUnsafe(ext, env, f))

C26_Witness ==
  /\ Holds(H1)
  /\ ret.op = "pure" /\ ret.who = H1
  /\ Len(EnvOf(H1).extensions) = 4
  /\ getStateUnsafe(envExtensionsRef[4], EnvOf(H1)) = 5
  /\ getStateUnsafe(modListExtension, EnvOf(H1)) # <<>>
  /\ getEntries(persistentEnvExtensionsRef[2], EnvOf(H1)) # <<>>
  /\ EnvOf(H1).trustLevel = 1
  /\ isQuotInit(EnvOf(H1))

\* ---------------------------------------------------------------------
\* module i of the list declares the name n
Defines(mods, i, n) == \E k \in 1..Len(mods[i].constants) : mods[i].constants[k].name = n

\* C27: in the environment importModules assembles, find answers for a
\* name exactly when some module of the list declares it, the answer being
\* the declaration of the last module in list order that declares it, and
\* getModuleIdxFor answers the position in the list of a module that
\* declares the name (none for a name no module declares)
C27_ImportedIndex ==
  ImportAssembled =>
    \A n \in ConstNames :
      LET mods == imp.mods
          D == {i \in 1..Len(mods) : Defines(mods, i, n)}
          r == EnvFind(imp.env, n)
          ix == getModuleIdxFor(imp.env, n)
      IN /\ D = {} => r = None /\ ix = None
         /\ D # {} =>
              LET last == CHOOSE i \in D : \A j \in D : j <= i
              IN /\ IsSome(r)
                 /\ r[1].name = n
                 /\ r[1] \in SeqSet(mods[last].constants)
                 /\ IsSome(ix)
                 /\ ix[1] + 1 \in D

C27_Witness ==
  /\ ImportAssembled
  /\ imp.order = <<"A", "B">>
  /\ EnvFind(imp.env, "a") = Some(Decl("a", 2))
  /\ EnvFind(imp.env, "b") = Some(Decl("b", 1))
  /\ getModuleIdxFor(imp.env, "a") = Some(1)
  /\ Defines(imp.mods, 1, "a") /\ Defines(imp.mods, 2, "a")

\* ---------------------------------------------------------------------
\* the environment importModules has assembled before the replay starts
AssembledEnv ==
  importedEnvironment(imp.roots, imp.trust, imp.mods, envExtensionsRef,
                      persistentEnvExtensionsRef)

\* importModules has returned its environment to the caller
ImportReturned == imp.pc = "idle" /\ ret.op = "importModules" /\ ret.ok

\* the calls of performModifications made so far follow the module list
CallsThreaded ==
  /\ Len(imp.calls) <= Len(imp.mods)
  /\ \A i \in 1..Len(imp.calls) :
       /\ imp.calls[i].bytes = imp.mods[i].serialized
       /\ imp.calls[i].arg = IF i = 1 THEN AssembledEnv ELSE imp.calls[i - 1].res
       /\ i < Len(imp.calls) => imp.calls[i].ok

\* C28: importModules calls performModifications once per module of the
\* list, in list order, the first call on the environment with finalized
\* persistent extensions and each later call on the environment the call
\* before it returned; what the last call returns is what importModules
\* returns
C28_ReplayThreaded ==
  /\ CallsThreaded
  /\ imp.pc = "perform" => Len(imp.calls) = imp.k /\ (imp.k = 0 => imp.env = AssembledEnv)
  /\ ImportReturned =>
       /\ Len(imp.calls) = Len(imp.mods)
       /\ \A i \in 1..Len(imp.calls) : imp.calls[i].ok
       /\ EnvOf(imp.who) = IF imp.calls = <<>> THEN AssembledEnv
                           ELSE imp.calls[Len(imp.calls)].res

C28_Witness ==
  /\ ImportReturned
  /\ imp.order = <<"A", "B", "C">>
  /\ Len(imp.calls) = 3
  /\ imp.calls[1].bytes.mods = <<7>> /\ imp.calls[3].bytes.mods = <<8>>
  /\ imp.calls[3].arg = imp.calls[2].res
  /\ imp.calls[1].res # imp.calls[1].arg
  /\ EnvOf(H1) = imp.calls[3].res

\* ---------------------------------------------------------------------
\* C29: for every persistent extension and reachable environment,
\* forceState gives an environment whose cache is some(getState(env)) and
\* whose current and imported entries are those of env; getState answers
\* the same before and after forceState, and forcing twice is forcing once
C29_ForceState ==
  \A h \in Holders :
    Holds(h) =>
      \A pext \in PExts :
        LET env == EnvOf(h)
            forced == forceState(pext, env)
        IN /\ PState(pext, forced).state = Some(getState(pext, env))
           /\ getEntries(pext, forced) = getEntries(pext, env)
           /\ PState(pext, forced).importedEntries = PState(pext, env).importedEntries
           /\ getState(pext, forced) = getState(pext, env)
           /\ forceState(pext, forced) = forced
           /\ IsSome(PState(pext, env).state) => forced = env

\* a lazy extension of an imported environment has a cache only once forced
C29_Witness ==
  /\ Holds(H1)
  /\ ret.op = "pure" /\ ret.who = H1
  /\ EnvOf(H1).imports = <<"B">>
  /\ \E pext \in PExts :
       /\ pext.lazy
       /\ getEntries(pext, EnvOf(H1)) = <<1, 0>>
       /\ PState(pext, EnvOf(H1)).importedEntries = <<<<0>>, <<>>>>
       /\ PState(pext, EnvOf(H1)).state = Some(getState(pext, EnvOf(H1)))
       /\ forceState(pext, EnvOf(H1)) = EnvOf(H1)

\* ---------------------------------------------------------------------
\* importModulesAux has returned to importModules with the module list
AuxReturned == imp.pc = "build"

\* C30: a call of importModulesAux ends, by returning or by failing,
\* whatever the import graph of the module files, cycles and self-imports
\* included; when it returns, every module it visited is in the list once
C30_AuxTerminates ==
  /\ (imp.pc = "aux") ~> (imp.pc # "aux")
  /\ [](AuxReturned =>
          /\ NoDup(imp.order)
          /\ SeqSet(imp.order) = imp.visited
          /\ Len(imp.mods) = Cardinality(imp.visited)
          /\ imp.stack = <<>>)

C30_Witness ==
  /\ AuxReturned
  /\ files = CycleFS
  /\ imp.roots = <<"A", "C">>
  /\ "B" \in Imports("A") /\ "A" \in Imports("B") /\ "C" \in Imports("C")
  /\ imp.order = <<"B", "A", "C">>

\* ---------------------------------------------------------------------
\* the thread's call has read the registry's size
PastRead(t) == reg[t].pc = "sized" \/ (reg[t].pc = "done" /\ reg[t].pos > 0)

\* the thread's call has pushed its descriptor and returned it
Registered(t) == reg[t].pc = "done" /\ reg[t].pos > 0

\* C31: registerEnvExtension reads the registry's size and pushes the
\* descriptor in two steps; two calls of which one read the size before the
\* other pushed and the other read it before the first pushed carry the
\* same slot index, and both descriptors end up in the registry with that
\* index; two calls one of which returned before the other read the size
\* carry different indices
C31_InterleavedShareSlot ==
  \A t \in Threads, u \in Threads :
    (t # u /\ PastRead(t) /\ PastRead(u)) =>
      /\ reg[t].raced = reg[u].raced
      /\ reg[t].raced => reg[t].idx = reg[u].idx
      /\ ~reg[t].raced => reg[t].idx # reg[u].idx
      /\ (Registered(t) /\ Registered(u)) =>
           /\ reg[t].pos # reg[u].pos
           /\ envExtensionsRef[reg[t].pos].idx = reg[t].idx
           /\ envExtensionsRef[reg[u].pos].idx = reg[u].idx
           /\ reg[t].raced <=>
                envExtensionsRef[reg[t].pos].idx = envExtensionsRef[reg[u].pos].idx

C31_Witness ==
  /\ Registered("t1") /\ Registered("t2")
  /\ reg["t1"].raced
  /\ Len(envExtensionsRef) = 3
  /\ envExtensionsRef[2].idx = 1 /\ envExtensionsRef[3].idx = 1
  /\ envExtensionsRef[2].initial # envExtensionsRef[3].initial
  /\ Holds(H1)
  /\ Len(EnvOf(H1).extensions) = 3

\* ---------------------------------------------------------------------
\* a call of registerEnvExtension or registerPersistentEnvExtension returned
RegistrationReturned ==
  /\ ret' # ret
  /\ ret'.op \in {"registerEnvExtension", "registerPersistentEnvExtension"}

\* C32: once initialization has completed it stays completed, neither
\* registry changes and every registration fails
C32_FrozenStep ==
  ~initializing =>
    /\ ~initializing'
    /\ envExtensionsRef' = envExtensionsRef
    /\ persistentEnvExtensionsRef' = persistentEnvExtensionsRef
    /\ RegistrationReturned => ~ret'.ok

\* C32: and every environment a call of mkEmptyEnvironment or importModules
\* made after initialization has created has as many extension slots as
\* the registry has descriptors, so all of them have the same number
C32_SameSlots ==
  \A h \in Holders :
    (Holds(h) /\ ~hist[h].early) =>
      /\ ~initializing
      /\ Len(EnvOf(h).extensions) = Len(envExtensionsRef)
      /\ hist[h].nexts = Len(envExtensionsRef)

C32_RegistryFrozen == [][C32_FrozenStep]_vars /\ []C32_SameSlots

C32_Witness ==
  /\ ~initializing
  /\ ret.op = "registerPersistentEnvExtension" /\ ~ret.ok
  /\ Holds(H1) /\ ~hist[H1].early
  /\ EnvOf(H1).imports = <<"A">>
  /\ Len(persistentEnvExtensionsRef) = 1
  /\ Len(EnvOf(H1).extensions) = Len(envExtensionsRef)

\* ---------------------------------------------------------------------
\* C33: in the hash table of a declaration index every inserted key is
\* found with the value inserted last for it, whatever growth has happened
\* since; the size field is the number of distinct keys, so inserting a
\* present key leaves it as it was; the bucket array is doubled once the
\* size exceeds the number of buckets, and every entry is in the chain its
\* hash selects in the array as it is now
C33_HashTableGrowth ==
  \A h \in Holders :
    (Holds(h) /\ EnvOf(h).constants.stage1) =>
      LET m == EnvOf(h).constants.map1
          keys == {n \in AllNames : IsSome(hist[h].last[n])}
      IN /\ \A n \in AllNames : HashMapFind(m, n) = hist[h].last[n]
         /\ m.size = Cardinality(keys)
         /\ Len(m.buckets) = IF m.size > NBuckets THEN 2 * NBuckets ELSE NBuckets
         /\ \A i \in 1..Len(m.buckets) :
              /\ \A j \in 1..Len(m.buckets[i]) :
                   /\ HashIdx(m.buckets[i][j][1], Len(m.buckets)) = i
                   /\ m.buckets[i][j][1] \in keys
              /\ NoDup([j \in 1..Len(m.buckets[i]) |-> m.buckets[i][j][1]])

C33_Witness ==
  /\ Holds(H1)
  /\ EnvOf(H1).constants.map1.size = 10
  /\ Len(EnvOf(H1).constants.map1.buckets) = 16
  /\ HashIdx("k1", 8) = HashIdx("k0", 8) /\ HashIdx("k1", 16) # HashIdx("k0", 16)
  /\ EnvFind(EnvOf(H1), "k1") = Some(Decl("k1", 2))
  /\ EnvFind(EnvOf(H1), "k0") = Some(Decl("k0", 1))
  /\ Len(EnvOf(H1).constants.map1.buckets[1]) = 2

\* ---------------------------------------------------------------------
\* the position in the imported module list of the last module declaring n
ImportedIdx(n) ==
  LET D == {i \in 1..Len(imp.order) :
              \E k \in 1..Len(files[imp.order[i]].data.constants) :
                 files[imp.order[i]].data.constants[k].name = n}
  IN IF D = {} THEN None ELSE Some((CHOOSE i \in D : \A j \in D : j <= i) - 1)

\* C34: getModuleIdxFor answers for every name what the import made it
\* answer: the module position for an imported name, also after add has
\* overwritten the name, and none for a name that was not imported, also
\* after add has declared it; add, setState, modifyState, addEntry,
\* forceState and switch leave the answer as it is
C34_IndexStep ==
  \A h \in Holders :
    /\ Holds(h) => \A n \in ConstNames : getModuleIdxFor(EnvOf(h), n) = ImportedIdx(n)
    /\ Derives(h) =>
         /\ EnvOf(h).const2ModIdx' = EnvOf(h).const2ModIdx
         /\ \A n \in ConstNames :
              getModuleIdxFor(EnvOf(h), n)' = getModuleIdxFor(EnvOf(h), n)

C34_ImportIndexReadOnly == [][C34_IndexStep]_vars

C34_Witness ==
  /\ Holds(H1)
  /\ ret.op = "pure" /\ ret.who = H1
  /\ EnvOf(H1).imports = <<"A">>
  /\ hist[H1].switched
  /\ EnvFind(EnvOf(H1), "a") = Some(Decl("a", 2))
  /\ getModuleIdxFor(EnvOf(H1), "a") = Some(0)
  /\ EnvFind(EnvOf(H1), "b") = Some(Decl("b", 1))
  /\ getModuleIdxFor(EnvOf(H1), "b") = None
  /\ Len(hist[H1].added) > 0


\* -----------------------------------------------------------------
\* C35: out-of-range read
\* -----------------------------------------------------------------

\* a registered plain extension with no slot in the environment held by h
SlotAbsent(h, i) ==
  /\ Holds(h)
  /\ i \in PlainExts
  /\ envExtensionsRef[i].idx >= Len(EnvOf(h).extensions)

\* C35: getState returns the extension's registered initial state when
\* env.extensions has no slot at the extension's index.
C35_AbsentSlotGivesInitial ==
  \A h \in Holders : \A i \in 1..Len(envExtensionsRef) :
     SlotAbsent(h, i) =>
        getStateUnsafe(envExtensionsRef[i], EnvOf(h)) = envExtensionsRef[i].initial

\* the absent-slot read happens: an environment imported during
\* initialization, then an extension registered after it
C35_AbsentRead ==
  \E h \in Holders : \E i \in 1..Len(envExtensionsRef) :
     /\ SlotAbsent(h, i)
     /\ getStateUnsafe(envExtensionsRef[i], EnvOf(h)) = DefaultState
     /\ envExtensionsRef[i].initial # DefaultState


\* -----------------------------------------------------------------
\* C36: slots of environments made after initialization
\* -----------------------------------------------------------------

\* h holds an environment that mkEmptyEnvironment or importModules produced
\* after initialization, or one derived from it
MadeAfterInit(h) == Holds(h) /\ ~hist[h].early /\ imp.pc = "idle"

\* C36: in every environment produced by mkEmptyEnvironment or importModules
\* after initialization, and in every environment derived from it, the idx of
\* every registered extension is below the length of env.extensions; a
\* setState is then stored and a getState reads the slot.
C36_SlotsInRange ==
  \A h \in Holders :
     MadeAfterInit(h) =>
        /\ \A i \in 1..Len(envExtensionsRef) :
              envExtensionsRef[i].idx < Len(EnvOf(h).extensions)
        /\ \A i \in PlainExts : \A s \in PlainStates :
              LET ext == envExtensionsRef[i]
                  env2 == setStateUnsafe(ext, EnvOf(h), s)
              IN /\ getStateUnsafe(ext, env2) = s
                 /\ getStateUnsafe(ext, EnvOf(h)) = EnvOf(h).extensions[ext.idx + 1]

\* an environment made after initialization, with three registered extensions,
\* that a setState has already derived from the one first produced
C36_Witness ==
  /\ MadeAfterInit(H1)
  /\ Len(envExtensionsRef) = MaxExts
  /\ PlainExts # {}
  /\ ret.op = "pure"
  /\ \E i \in PlainExts : EnvOf(H1).extensions[envExtensionsRef[i].idx + 1] = 0


\* -----------------------------------------------------------------
\* C37: slots addressed from C++
\* -----------------------------------------------------------------

\* the indices the registry has not assigned
Unassigned == {idx \in CPPIdxs : idx >= Len(envExtensionsRef)}

\* C37: setCPPExtensionState and getCPPExtensionState access only slot idx:
\* when idx is not a slot assigned by the registry, setCPPExtensionState
\* leaves the states of all registered extensions unchanged and
\* getCPPExtensionState does not return another extension's state.
C37_OnlySlotIdx ==
  \A h \in Holders :
     Ready(h) =>
        \A idx \in Unassigned :
           /\ \A s \in CPPStates :
                 LET env2 == setCPPExtensionState(envExtensionsRef, EnvOf(h), idx, s)
                 IN \A i \in 1..Len(envExtensionsRef) :
                       getStateUnsafe(envExtensionsRef[i], env2)
                         = getStateUnsafe(envExtensionsRef[i], EnvOf(h))
           /\ \A i \in 1..Len(envExtensionsRef) :
                 getCPPExtensionState(envExtensionsRef, EnvOf(h), idx)
                   # getStateUnsafe(envExtensionsRef[i], EnvOf(h))

\* a write through an unassigned index has replaced the state of
\* modListExtension, and a read through one has returned it
C37_Aliased ==
  /\ Ready(H1)
  /\ ret.op = "getCPPExtensionState"
  /\ getStateUnsafe(modListExtension, EnvOf(H1)) = <<9>>
  /\ \A i \in 2..Len(envExtensionsRef) :
        getStateUnsafe(envExtensionsRef[i], EnvOf(H1)) = <<8>>
  /\ ret.val = <<9>>


\* -----------------------------------------------------------------
\* C38: module indices across the declaration index and the extensions
\* -----------------------------------------------------------------

\* C38: after importModules, for any declaration c with getModuleIdxFor(env, c)
\* = some i and any persistent extension ext, the module at list position i
\* declares c and getModuleEntries(ext, env, i) is exactly the entry sequence
\* that module recorded for ext.
C38_ModuleIndexAligned ==
  ImportReturned =>
    \A c \in ConstNames : \A pext \in PExts :
      LET env == EnvOf(imp.who)
          ix == getModuleIdxFor(env, c)
      IN IsSome(ix) =>
           /\ ix[1] < Len(imp.order)
           /\ Defines(imp.mods, ix[1] + 1, c)
           /\ getModuleEntries(pext, env, ix[1])
                = StoredEntries(imp.order[ix[1] + 1], pext.name)

\* an import of A then B: a is indexed under B, whose entries for X are <<10>>
\* where A's are <<1, 2>>
C38_Witness ==
  /\ ImportReturned
  /\ imp.order = <<"A", "B">>
  /\ getModuleIdxFor(EnvOf(imp.who), "a") = Some(1)
  /\ \E pext \in PExts :
       /\ pext.name = "X"
       /\ getModuleEntries(pext, EnvOf(imp.who), 1) = <<10>>
       /\ getModuleEntries(pext, EnvOf(imp.who), 0) = <<1, 2>>


\* -----------------------------------------------------------------
\* C39: entries written with a module and imported again
\* -----------------------------------------------------------------

\* the importer of the written module C has returned
TripReturned == ImportReturned /\ imp.who = "h2" /\ Written("C")

\* position of the module in the module list, counted from 0
PositionOf(m, order) == (CHOOSE i \in 1..Len(order) : order[i] = m) - 1

\* C39: if entries e1..en were added with addEntry for extension X while
\* elaborating module M and M's data is produced by mkModuleData, then in
\* every environment obtained by importing M, getModuleEntries(X, env,
\* position of M) = toArrayFn([e1, .., en]), the imported aggregate folds
\* e1..en in that order after the entries of the modules before M, and X's
\* currentEntries in the importing environment is empty.
C39_RoundTrip ==
  TripReturned =>
    \A pext \in PExts :
      LET env == EnvOf("h2")
          es == AddedTo(pext.idx, hist[H1].added)
          pos == PositionOf("C", imp.order)
          before == SubSeq(imp.order, 1, pos)
          seed == LeftFold(pext.addEntryFn, TRUE, RegisteredInit(pext.name),
                           ImportedFlat(before, pext.name))
      IN /\ pos + 1 = Len(imp.order)
         /\ getModuleEntries(pext, env, pos) = ApplyToArrayFn(pext.toArrayFn, es)
         /\ ThunkGet(PState(pext, env).importedState)
              = LeftFold(pext.addEntryFn, TRUE, seed, es)
         /\ getState(pext, env) = LeftFold(pext.addEntryFn, TRUE, seed, es)
         /\ getEntries(pext, env) = <<>>

\* C written over A with 0 then 1 added for X and 1 for Y, then imported
C39_Witness ==
  /\ TripReturned
  /\ imp.order = <<"A", "C">>
  /\ hist[H1].added = <<<<1, 0>>, <<2, 1>>, <<1, 1>>>>
  /\ \E pext \in PExts :
       /\ pext.name = "X"
       /\ getModuleEntries(pext, EnvOf("h2"), 1) = <<0, 1>>
       /\ getState(pext, EnvOf("h2")) = 4


\* -----------------------------------------------------------------
\* C40: the two registries
\* -----------------------------------------------------------------

\* every descriptor of the persistent registry has its slot in the extension
\* registry, registered with no imported entries, no current entries and the
\* descriptor's initial aggregate cached
C40_SlotsRegistered ==
  \A j \in 1..Len(persistentEnvExtensionsRef) :
    LET pext == persistentEnvExtensionsRef[j]
    IN /\ pext.idx < Len(envExtensionsRef)
       /\ envExtensionsRef[pext.idx + 1].idx = pext.idx
       /\ \E d \in Descrs :
            /\ d.name = pext.name /\ d.addEntryFn = pext.addEntryFn /\ d.lazy = pext.lazy
            /\ LET s == envExtensionsRef[pext.idx + 1].initial
               IN /\ s.importedEntries = <<>>
                  /\ s.entries = <<>>
                  /\ s.state = Some(d.initState)
                  /\ pext.initial = s

\* a call of registerPersistentEnvExtension that fails changes neither registry
C40_FailedStep ==
  (ret'.op = "registerPersistentEnvExtension" /\ ~ret'.ok) =>
    /\ envExtensionsRef' = envExtensionsRef
    /\ persistentEnvExtensionsRef' = persistentEnvExtensionsRef

\* C40: every descriptor in the persistent-extension registry has a slot in
\* the extension registry whose registered initial state has empty
\* importedEntries, empty currentEntries and cachedState = some(initState); a
\* registerPersistentEnvExtension call that fails (duplicate name, or called
\* after initialization) adds an entry to neither registry.
C40_RegistriesConsistent == []C40_SlotsRegistered /\ [][C40_FailedStep]_vars

\* a persistent extension registered behind a plain one, and a later
\* registration refused after initialization
C40_Witness ==
  /\ ~initializing
  /\ ret.op = "registerPersistentEnvExtension" /\ ~ret.ok
  /\ Len(persistentEnvExtensionsRef) = 1
  /\ persistentEnvExtensionsRef[1].idx = 2
  /\ Len(envExtensionsRef) = 3
====
